---- MODULE Spec2Model ----
(***************************************************************************)
(* dual-scroll-sync v0.6.0: the scroll map (buildMap), the axis lookup     *)
(* (lookup) and the DualScrollSync controller of src/src/index.js          *)
(* (the last module of that file, lines 1097-1525), as a state machine.    *)
(*                                                                         *)
(* JavaScript numbers are modelled as exact rationals [n |-> , d |-> ]     *)
(* (d > 0, lowest terms); segment fields, which buildMap only ever builds  *)
(* from rounded coordinates, are integers.                                 *)
(***************************************************************************)
EXTENDS Integers, Sequences, FiniteSets, TLC

\* ------------------------------------------------------------------------
\* Numbers
\* ------------------------------------------------------------------------

Abs(i) == IF i < 0 THEN -i ELSE i

RECURSIVE GCD(_, _)
GCD(a, b) == IF b = 0 THEN a ELSE GCD(b, a % b)

Norm(n, d) ==
  IF d = 1 THEN [n |-> n, d |-> 1]
  ELSE LET s == IF d < 0 THEN -1 ELSE 1
           g == GCD(Abs(n), Abs(d))
       IN  [n |-> (s * n) \div g, d |-> (s * d) \div g]

R(i) == [n |-> i, d |-> 1]
Half == [n |-> 1, d |-> 2]

\* Sums and comparisons go through the least common denominator, so that
\* no intermediate value is larger than the result requires.
RAdd(x, y) ==
  IF x.d = y.d THEN Norm(x.n + y.n, x.d)
  ELSE LET g == GCD(x.d, y.d) IN
       Norm(x.n * (y.d \div g) + y.n * (x.d \div g), (x.d \div g) * y.d)
RNeg(x) == [n |-> -x.n, d |-> x.d]
RSub(x, y) == RAdd(x, RNeg(y))
RMul(x, y) ==
  IF x.d = 1 /\ y.d = 1 THEN [n |-> x.n * y.n, d |-> 1]
  ELSE LET g == GCD(Abs(x.n), y.d)
           h == GCD(Abs(y.n), x.d)
       IN  Norm((x.n \div g) * (y.n \div h), (x.d \div h) * (y.d \div g))
RDiv(x, y) == Norm(x.n * y.d, x.d * y.n)
RLt(x, y) ==
  IF x.d = y.d THEN x.n < y.n
  ELSE LET g == GCD(x.d, y.d) IN x.n * (y.d \div g) < y.n * (x.d \div g)
RLe(x, y) ==
  IF x.d = y.d THEN x.n <= y.n
  ELSE LET g == GCD(x.d, y.d) IN x.n * (y.d \div g) <= y.n * (x.d \div g)
RAbs(x) == [n |-> Abs(x.n), d |-> x.d]
RMin(x, y) == IF RLe(x, y) THEN x ELSE y
RMax(x, y) == IF RLe(x, y) THEN y ELSE x
IsInt(x) == x.d = 1

\* Math.round: nearest integer, halves towards +Infinity.
MathRound(x) == (2 * x.n + x.d) \div (2 * x.d)

IMax(i, j) == IF i >= j THEN i ELSE j
IMin(i, j) == IF i <= j THEN i ELSE j

\* ------------------------------------------------------------------------
\* Program constants
\* ------------------------------------------------------------------------

PUMP_STOP_PX == 5
ECHO_GUARD_PX == 3
LINE_PX == 16

SIZE_KEY == [aPx |-> "aS", bPx |-> "bS", vPx |-> "vS"]

\* null / undefined / NaN: a number that is not a number, no map, no frame.
Null == [n |-> 0, d |-> 0]
NoMap == [none |-> TRUE]
NoFrame == 0

\* ------------------------------------------------------------------------
\* buildMap
\* ------------------------------------------------------------------------

\* anchors.map(...): round and clamp each anchor into the extents.
ClampAnchor(e, sMaxA, sMaxB) ==
  [aPx |-> IMax(0, IMin(sMaxA, MathRound(e.aPx))),
   bPx |-> IMax(0, IMin(sMaxB, MathRound(e.bPx))),
   snap |-> e.snap]

\* Faulty variant: an unstable sort, which puts an anchor before those of
\* equal aPx that stood before it in the input.
RECURSIVE InsertSorted_unstable(_, _)
InsertSorted_unstable(s, e) ==
  IF s = << >> THEN << e >>
  ELSE IF s[Len(s)].aPx < e.aPx THEN Append(s, e)
  ELSE Append(InsertSorted_unstable(SubSeq(s, 1, Len(s) - 1), e), s[Len(s)])

\* Array.prototype.sort with (x, y) => x.aPx - y.aPx: stable, ascending aPx.
RECURSIVE InsertSorted(_, _)
InsertSorted(s, e) ==
  IF s = << >> THEN << e >>
  ELSE IF s[Len(s)].aPx <= e.aPx THEN Append(s, e)
  ELSE Append(InsertSorted(SubSeq(s, 1, Len(s) - 1), e), s[Len(s)])

RECURSIVE SortByA(_)
SortByA(s) ==
  IF s = << >> THEN << >>
  ELSE InsertSorted(SortByA(SubSeq(s, 1, Len(s) - 1)), s[Len(s)])

\* Faulty variant: an anchor is kept only when its bPx exceeds lastB.
RECURSIVE AcceptLoop_strictB(_, _, _, _, _)
AcceptLoop_strictB(sorted, i, pts, lastB, droppedCount) ==
  IF i > Len(sorted) THEN [pts |-> pts, droppedCount |-> droppedCount]
  ELSE LET e == sorted[i] IN
       IF e.bPx > lastB /\ e.aPx > pts[Len(pts)].aPx
       THEN AcceptLoop_strictB(sorted, i + 1, Append(pts, e), e.bPx,
                               droppedCount)
       ELSE AcceptLoop_strictB(sorted, i + 1, pts, lastB, droppedCount + 1)

\* Faulty variant: an anchor at the aPx of the last point is kept.
RECURSIVE AcceptLoop_sameA(_, _, _, _, _)
AcceptLoop_sameA(sorted, i, pts, lastB, droppedCount) ==
  IF i > Len(sorted) THEN [pts |-> pts, droppedCount |-> droppedCount]
  ELSE LET e == sorted[i] IN
       IF e.bPx >= lastB /\ e.aPx >= pts[Len(pts)].aPx
       THEN AcceptLoop_sameA(sorted, i + 1, Append(pts, e), e.bPx,
                             droppedCount)
       ELSE AcceptLoop_sameA(sorted, i + 1, pts, lastB, droppedCount + 1)

\* Faulty variant: lastB follows every visited anchor, kept or not.
RECURSIVE AcceptLoop_prevB(_, _, _, _, _)
AcceptLoop_prevB(sorted, i, pts, lastB, droppedCount) ==
  IF i > Len(sorted) THEN [pts |-> pts, droppedCount |-> droppedCount]
  ELSE LET e == sorted[i] IN
       IF e.bPx >= lastB /\ e.aPx > pts[Len(pts)].aPx
       THEN AcceptLoop_prevB(sorted, i + 1, Append(pts, e), e.bPx,
                             droppedCount)
       ELSE AcceptLoop_prevB(sorted, i + 1, pts, e.bPx, droppedCount + 1)

\* The acceptance loop: pts, lastB and droppedCount after sorted[i..].
RECURSIVE AcceptLoop(_, _, _, _, _)
AcceptLoop(sorted, i, pts, lastB, droppedCount) ==
  IF i > Len(sorted) THEN [pts |-> pts, droppedCount |-> droppedCount]
  ELSE LET e == sorted[i] IN
       IF e.bPx >= lastB /\ e.aPx > pts[Len(pts)].aPx
       THEN AcceptLoop(sorted, i + 1, Append(pts, e), e.bPx, droppedCount)
       ELSE AcceptLoop(sorted, i + 1, pts, lastB, droppedCount + 1)

\* Faulty variants of the segment loop: vCum is not advanced; vS is the sum
\* of aS and bS.
RECURSIVE SegmentLoop_noCum(_, _, _, _)
SegmentLoop_noCum(pts, i, map, vCum) ==
  IF i > Len(pts) - 1 THEN [segments |-> map, vTotal |-> vCum]
  ELSE LET aS == pts[i + 1].aPx - pts[i].aPx
           bS == pts[i + 1].bPx - pts[i].bPx
           vS == IMax(aS, bS)
           seg == [aPx |-> pts[i].aPx, bPx |-> pts[i].bPx, vPx |-> vCum,
                   aS |-> aS, bS |-> bS, vS |-> vS, snap |-> pts[i].snap]
       IN  SegmentLoop_noCum(pts, i + 1, Append(map, seg), vCum)

RECURSIVE SegmentLoop_sum(_, _, _, _)
SegmentLoop_sum(pts, i, map, vCum) ==
  IF i > Len(pts) - 1 THEN [segments |-> map, vTotal |-> vCum]
  ELSE LET aS == pts[i + 1].aPx - pts[i].aPx
           bS == pts[i + 1].bPx - pts[i].bPx
           vS == aS + bS
           seg == [aPx |-> pts[i].aPx, bPx |-> pts[i].bPx, vPx |-> vCum,
                   aS |-> aS, bS |-> bS, vS |-> vS, snap |-> pts[i].snap]
       IN  SegmentLoop_sum(pts, i + 1, Append(map, seg), vCum + vS)

\* The segment loop: map and vCum after pts[i..].
RECURSIVE SegmentLoop(_, _, _, _)
SegmentLoop(pts, i, map, vCum) ==
  IF i > Len(pts) - 1 THEN [segments |-> map, vTotal |-> vCum]
  ELSE LET aS == pts[i + 1].aPx - pts[i].aPx
           bS == pts[i + 1].bPx - pts[i].bPx
           vS == IMax(aS, bS)
           seg == [aPx |-> pts[i].aPx, bPx |-> pts[i].bPx, vPx |-> vCum,
                   aS |-> aS, bS |-> bS, vS |-> vS, snap |-> pts[i].snap]
       IN  SegmentLoop(pts, i + 1, Append(map, seg), vCum + vS)

buildMap(anchors, sMaxA0, sMaxB0) ==
  LET sMaxA == IMax(0, sMaxA0)
      sMaxB == IMax(0, sMaxB0)
      sorted == SortByA([i \in 1..Len(anchors) |->
                           ClampAnchor(anchors[i], sMaxA, sMaxB)])
      acc == AcceptLoop(sorted, 1, << [aPx |-> 0, bPx |-> 0, snap |-> FALSE] >>,
                        0, 0)
      pts == Append(acc.pts, [aPx |-> sMaxA, bPx |-> sMaxB, snap |-> FALSE])
      built == SegmentLoop(pts, 1, << >>, 0)
  IN  [segments |-> built.segments,
       vTotal |-> built.vTotal,
       droppedCount |-> acc.droppedCount,
       hasSnap |-> \E i \in 1..Len(built.segments) : built.segments[i].snap]

\* The points buildMap keeps between the synthetic head and tail.
RetainedAnchors(anchors, sMaxA0, sMaxB0) ==
  LET sMaxA == IMax(0, sMaxA0)
      sMaxB == IMax(0, sMaxB0)
      sorted == SortByA([i \in 1..Len(anchors) |->
                           ClampAnchor(anchors[i], sMaxA, sMaxB)])
      acc == AcceptLoop(sorted, 1, << [aPx |-> 0, bPx |-> 0, snap |-> FALSE] >>,
                        0, 0)
  IN  SubSeq(acc.pts, 2, Len(acc.pts))

\* ------------------------------------------------------------------------
\* lookup
\* ------------------------------------------------------------------------

\* Faulty variant: a segment is passed only when its start is below value.
RECURSIVE BinarySearch_strict(_, _, _, _, _)
BinarySearch_strict(segments, from, value, lo, hi) ==
  IF lo < hi
  THEN LET mid == (lo + hi + 1) \div 2 IN
       IF RLt(R(segments[mid + 1][from]), value)
       THEN BinarySearch_strict(segments, from, value, mid, hi)
       ELSE BinarySearch_strict(segments, from, value, lo, mid - 1)
  ELSE lo

\* The binary search of lookup (0-based lo, hi as in the source).
RECURSIVE BinarySearch(_, _, _, _, _)
BinarySearch(segments, from, value, lo, hi) ==
  IF lo < hi
  THEN LET mid == (lo + hi + 1) \div 2 IN
       IF RLe(R(segments[mid + 1][from]), value)
       THEN BinarySearch(segments, from, value, mid, hi)
       ELSE BinarySearch(segments, from, value, lo, mid - 1)
  ELSE lo

\* Faulty variant: no interpolation within the segment.
lookup_noInterp(segments, from, to, value) ==
  IF Len(segments) = 0 THEN R(0)
  ELSE R(segments[BinarySearch(segments, from, value, 0, Len(segments) - 1)
                  + 1][to])

\* Faulty variant: the interpolated position is cut down to a whole pixel.
lookup_floored(segments, from, to, value) ==
  IF Len(segments) = 0 THEN R(0)
  ELSE LET lo == BinarySearch(segments, from, value, 0, Len(segments) - 1)
           seg == segments[lo + 1]
       IN  IF seg[SIZE_KEY[from]] <= 0 THEN R(seg[to])
           ELSE LET t == RDiv(RSub(value, R(seg[from])), R(seg[SIZE_KEY[from]]))
                    x == RAdd(R(seg[to]), RMul(t, R(seg[SIZE_KEY[to]])))
                IN  R(x.n \div x.d)

\* Faulty variant: the interpolated position is rounded to a whole pixel.
lookup_rounded(segments, from, to, value) ==
  IF Len(segments) = 0 THEN R(0)
  ELSE LET lo == BinarySearch(segments, from, value, 0, Len(segments) - 1)
           seg == segments[lo + 1]
       IN  IF seg[SIZE_KEY[from]] <= 0 THEN R(seg[to])
           ELSE LET t == RDiv(RSub(value, R(seg[from])), R(seg[SIZE_KEY[from]]))
                IN  R(MathRound(RAdd(R(seg[to]), RMul(t, R(seg[SIZE_KEY[to]])))))

lookup(segments, from, to, value) ==
  IF Len(segments) = 0 THEN R(0)
  ELSE LET lo == BinarySearch(segments, from, value, 0, Len(segments) - 1)
           seg == segments[lo + 1]
       IN  IF seg[SIZE_KEY[from]] <= 0 THEN R(seg[to])
           ELSE LET t == RDiv(RSub(value, R(seg[from])), R(seg[SIZE_KEY[from]]))
                IN  RAdd(R(seg[to]), RMul(t, R(seg[SIZE_KEY[to]])))

\* ------------------------------------------------------------------------
\* Bounds and the environment the controller is run in
\* ------------------------------------------------------------------------

\* Host inputs per behaviour: scroll events of a pane the user moved, wheel
\* events, calls of public methods, changes of public fields and of the
\* content.  Frames and the scroll events of the controller's own writes
\* are not counted.
MaxInputs == 2

Pane == {"a", "b"}
Other(p) == IF p = "a" THEN "b" ELSE "a"

A(n, m, s) == [aPx |-> n, bPx |-> m, snap |-> s]

\* What the host can show in the panes: getAnchors() and the pane geometry.
\* Layout 1 is the test suite's two-segment map, scaled down; layout 2 has
\* unsorted, fractional, dropped, flat-B and snap-flagged anchors; in
\* layout 3 getAnchors throws.  Layout 4 is a longer document, which only
\* the controllers with a braked wheel start on.
Layouts ==
  << [anchors |-> << A(R(2), R(6), FALSE) >>,
      scrollHeightA |-> 12, clientHeightA |-> 4,
      scrollHeightB |-> 15, clientHeightB |-> 5, throws |-> FALSE],
     [anchors |-> << A(R(5), R(7), TRUE), A([n |-> 3, d |-> 2], R(4), FALSE),
                     A(R(4), R(4), FALSE), A(R(3), R(1), FALSE) >>,
      scrollHeightA |-> 10, clientHeightA |-> 4,
      scrollHeightB |-> 13, clientHeightB |-> 5, throws |-> FALSE],
     [anchors |-> << >>,
      scrollHeightA |-> 12, clientHeightA |-> 4,
      scrollHeightB |-> 15, clientHeightB |-> 5, throws |-> TRUE],
     [anchors |-> << A(R(10), R(20), TRUE) >>,
      scrollHeightA |-> 30, clientHeightA |-> 6,
      scrollHeightB |-> 40, clientHeightB |-> 10, throws |-> FALSE] >>

\* The layouts the host switches to.
HostLayouts == {1, 2, 3}

NoBrake == [none |-> TRUE]
Brake(f, z) == [factor |-> f, zone |-> z]

\* opts.wheel as passed to the constructor.
Wheel(smooth, snap) == [smooth |-> smooth, snap |-> snap, brake |-> NoBrake]

WheelBraked(smooth, snap, f, z) ==
  [smooth |-> smooth, snap |-> snap, brake |-> Brake(f, z)]

\* The constructions explored: the first two layouts with either
\* alignOffset and an instant wheel, a smoothed wheel and a smoothed wheel
\* with snap; wheel handling off and a smooth factor above 1 on the first
\* layout; the throwing layout with an instant wheel.
Configs ==
  [layout : {1, 2}, alignOffset : {0, 1},
   wheel : {Wheel(R(1), R(0)), Wheel(Half, R(0)), Wheel(Half, R(2))}]
  \cup [layout : {1}, alignOffset : {0},
        wheel : {Wheel(R(0), R(0)), Wheel(R(2), R(0))}]
  \cup [layout : {3}, alignOffset : {0}, wheel : {Wheel(R(1), R(0))}]

\* Constructions with anchor braking, on the long document: a smoothed
\* wheel with a brake of factor 1/2 and zone 1, with and without snap.
BrakeConfigs ==
  [layout : {4}, alignOffset : {0, 1},
   wheel : {WheelBraked(Half, R(24), Half, R(1)),
            WheelBraked(Half, R(0), Half, R(1))}]

\* Wheel events the host can deliver: vertical notches in the three delta
\* modes, a diagonal and an empty event, and the events the handler is to
\* ignore (one modifier each, horizontal only).
Ev(dy, dx, mode, shift, ctrl, meta) ==
  [deltaY |-> dy, deltaX |-> dx, deltaMode |-> mode,
   shiftKey |-> shift, ctrlKey |-> ctrl, metaKey |-> meta]

NoEvent == [none |-> TRUE]

WheelEvents ==
  { Ev(2, 0, 0, FALSE, FALSE, FALSE), Ev(2, 0, 2, FALSE, FALSE, FALSE),
    Ev(-2, 0, 1, FALSE, FALSE, FALSE), Ev(2, 1, 0, FALSE, FALSE, FALSE),
    Ev(0, 0, 0, FALSE, FALSE, FALSE), Ev(0, 1, 0, FALSE, FALSE, FALSE),
    Ev(2, 0, 0, TRUE, FALSE, FALSE), Ev(2, 0, 0, FALSE, TRUE, FALSE),
    Ev(2, 0, 0, FALSE, FALSE, TRUE) }

ScrollToTargets == {R(-1), R(5), R(100)}

EmptyMap == [segments |-> << >>, vTotal |-> 0, droppedCount |-> 0,
             hasSnap |-> FALSE]

\* Per layout: the scrollable extents ensureMap() computes, the map it
\* builds (the empty map when getAnchors throws) and the anchors that map
\* keeps.
Extent(l, p) ==
  IF p = "a" THEN IMax(0, Layouts[l].scrollHeightA - Layouts[l].clientHeightA)
  ELSE IMax(0, Layouts[l].scrollHeightB - Layouts[l].clientHeightB)

\* Faulty variant: a throwing getAnchors counts as an empty anchor list.
BuiltMap_noCatch ==
  [l \in 1..Len(Layouts) |->
     buildMap(Layouts[l].anchors, Extent(l, "a"), Extent(l, "b"))]

BuiltMap ==
  [l \in 1..Len(Layouts) |->
     IF Layouts[l].throws THEN EmptyMap
     ELSE buildMap(Layouts[l].anchors, Extent(l, "a"), Extent(l, "b"))]

Kept ==
  [l \in 1..Len(Layouts) |->
     RetainedAnchors(Layouts[l].anchors, Extent(l, "a"), Extent(l, "b"))]

AllListeners == {"scrollA", "scrollB", "wheelA", "wheelB"}
ScrollListener(p) == IF p = "a" THEN "scrollA" ELSE "scrollB"
WheelListener(p) == IF p = "a" THEN "wheelA" ELSE "wheelB"

\* ------------------------------------------------------------------------
\* State
\* ------------------------------------------------------------------------

VARIABLES
  enabled,        \* this.enabled
  paneRef,        \* this.paneA / this.paneB still reference the panes
  listeners,      \* listeners currently registered on the panes
  alignOffset,    \* this.alignOffset
  wheel,          \* this.wheel
  data,           \* #data (NoMap or a MapData)
  dirty,          \* #dirty
  vCurrent,       \* #vCurrent
  expectedA,      \* #expectedA (Null or a number)
  expectedB,      \* #expectedB
  wheelRemaining, \* #wheelRemaining
  pumpRafId,      \* #pumpRafId (NoFrame or a frame handle)
  snapping,       \* #snapping
  scrollTop,      \* paneA.scrollTop, paneB.scrollTop
  layout,         \* index of the layout the host currently shows
  pendingScroll,  \* panes with a scroll event waiting to be dispatched
  frames,         \* frame handles the scheduler still holds
  inputs,         \* host inputs so far
  obs,            \* what the last handler run did
  args,           \* arguments of a direct call of buildMap (NoCall if none)
  ret             \* the last direct call of buildMap or lookup and its result

vars == << enabled, paneRef, listeners, alignOffset, wheel, data, dirty,
           vCurrent, expectedA, expectedB, wheelRemaining, pumpRafId,
           snapping, scrollTop, layout, pendingScroll, frames, inputs,
           obs, args, ret >>

\* The exported functions called directly, outside a controller.
pure == << args, ret >>

NoCall == [fn |-> "none"]

ctl == << enabled, paneRef, listeners, alignOffset, wheel, data, dirty,
          vCurrent, expectedA, expectedB, wheelRemaining, pumpRafId,
          snapping >>

\* Record of one handler run; reset by every step.
\* (src: the pane a scroll event came from; e: the wheel event handled;
\* cutSnap: an accepted wheel event found a snap pass in flight.)
Obs(op) == [op |-> op, src |-> "none", e |-> NoEvent, onSync |-> FALSE,
            prevented |-> FALSE, wrote |-> {},
            built |-> FALSE, onError |-> FALSE, requested |-> NoFrame,
            cancelled |-> NoFrame, echo |-> FALSE, diff |-> Null,
            clamped |-> FALSE, threw |-> FALSE, cutSnap |-> FALSE]

\* One more host input, while the bound allows it.
Input == inputs < MaxInputs /\ inputs' = inputs + 1

L == Layouts[layout]
sMax(p) == Extent(layout, p)

\* ------------------------------------------------------------------------
\* Constructor
\* ------------------------------------------------------------------------

\* The private fields and the panes after construction.
Fresh ==
  /\ enabled = TRUE
  /\ paneRef = TRUE
  /\ listeners = AllListeners
  /\ data = NoMap
  /\ dirty = TRUE
  /\ vCurrent = R(0)
  /\ expectedA = Null
  /\ expectedB = Null
  /\ wheelRemaining = R(0)
  /\ pumpRafId = NoFrame
  /\ snapping = FALSE
  /\ scrollTop = [p \in Pane |-> R(0)]
  /\ pendingScroll = [p \in Pane |-> FALSE]
  /\ frames = {}
  /\ inputs = 0
  /\ obs = Obs("constructor")

Init ==
  /\ Fresh
  /\ \E c \in Configs : /\ layout = c.layout
                         /\ alignOffset = c.alignOffset
                         /\ wheel = c.wheel
  /\ args = NoCall
  /\ ret = NoCall

\* ------------------------------------------------------------------------
\* ensureMap, #applyV
\* ------------------------------------------------------------------------

\* Faulty variants: the cache is never used; the dirty flag is not looked
\* at; a cached fallback map is rebuilt.
NeedBuild_always == TRUE

NeedBuild_noDirty == data = NoMap

NeedBuild_retry == dirty \/ data = NoMap \/ data = EmptyMap

\* The test of ensureMap(): a rebuild is due.
NeedBuild == dirty \/ data = NoMap

\* The map ensureMap() returns in the current state.
ensureMap == IF NeedBuild THEN BuiltMap[layout] ELSE data

ObsBuild(o) == IF NeedBuild
               THEN [o EXCEPT !.built = TRUE, !.onError = L.throws]
               ELSE o

\* Faulty variants of the clamp: one side missing.
Clamp_noUpper(x, lo, hi) == RMax(lo, x)
Clamp_noLower(x, lo, hi) == RMin(hi, x)

\* Math.max(lo, Math.min(hi, x)).
Clamp(x, lo, hi) == RMax(lo, RMin(hi, x))

\* Whether x lies outside [0, vTotal] of map d (observation only).
Outside(d, x) == RLt(x, R(0)) \/ RLt(R(d.vTotal), x)

\* Faulty variant: pane B is written with pane A's offset.
PaneTarget_paneA(d, p, v) ==
  RSub(lookup(d.segments, "vPx", "aPx", v), R(alignOffset))

\* The offsets #applyV writes for virtual position v on map d.
PaneTarget(d, p, v) ==
  RSub(lookup(d.segments, "vPx", IF p = "a" THEN "aPx" ELSE "bPx", v),
       R(alignOffset))

\* #applyV: both panes from v; both expectations; onSync.
\* (Here and below a handler's intermediate values are bound with
\* \E x \in {e}, which computes e once.)
applyV(d, v, o) ==
  \E ta \in {PaneTarget(d, "a", v)} : \E tb \in {PaneTarget(d, "b", v)} :
    /\ scrollTop' = [p \in Pane |-> IF p = "a" THEN ta ELSE tb]
    /\ expectedA' = ta
    /\ expectedB' = tb
    /\ pendingScroll' = [p \in Pane |-> TRUE]
    /\ obs' = [o EXCEPT !.onSync = TRUE, !.wrote = Pane]

\* ------------------------------------------------------------------------
\* Host actions: the user moves a pane, the content changes
\* ------------------------------------------------------------------------

\* Offsets pane p can be found at when one of its scroll events is
\* dispatched: where it was left (nobody moved it since the last write),
\* just inside and just outside the echo guard of the controller's last
\* write, or where the user put it (the far end, the aligned anchors of
\* the content shown).
AnchorStops(p) ==
  LET kept == Kept[layout] IN
  { (IF p = "a" THEN kept[i].aPx ELSE kept[i].bPx) - alignOffset :
      i \in 1..Len(kept) }

NearExpected(p) ==
  IF (IF p = "a" THEN expectedA ELSE expectedB) = Null THEN {}
  ELSE { RAdd(IF p = "a" THEN expectedA ELSE expectedB, R(k)) :
           k \in {ECHO_GUARD_PX - 1, ECHO_GUARD_PX} }

UserOffsets(p) ==
  { y \in { R(i) : i \in {sMax(p)} \cup AnchorStops(p) }
          \cup NearExpected(p) :
      RLe(R(0), y) /\ RLe(y, R(sMax(p))) } \cup {scrollTop[p]}

\* The host replaces the content: new anchors and pane geometry.
ChangeLayoutTo(l) ==
  /\ l # layout
  /\ layout' = l
  /\ obs' = Obs("changeLayout")
  /\ UNCHANGED << ctl, scrollTop, pendingScroll, frames, pure >>

ChangeLayout(l) == ChangeLayoutTo(l) /\ Input

\* The host replaces the content and tells the controller in the same
\* task: invalidate().
Rerender(l) ==
  /\ l # layout
  /\ layout' = l
  /\ dirty' = TRUE
  /\ obs' = Obs("rerender")
  /\ Input
  /\ UNCHANGED << enabled, paneRef, listeners, alignOffset, wheel, data,
                  vCurrent, expectedA, expectedB, wheelRemaining, pumpRafId,
                  snapping, scrollTop, pendingScroll, frames, pure >>

\* The host sets the public enabled flag.
SetEnabled(b) ==
  /\ b # enabled
  /\ enabled' = b
  /\ obs' = Obs("setEnabled")
  /\ Input
  /\ UNCHANGED << paneRef, listeners, alignOffset, wheel, data, dirty,
                  vCurrent, expectedA, expectedB, wheelRemaining, pumpRafId,
                  snapping, scrollTop, layout, pendingScroll, frames, pure >>

\* The host assigns wheel.smooth, a public, live-tunable setting.
SetSmooth(x) ==
  /\ paneRef
  /\ x # wheel.smooth
  /\ wheel' = [wheel EXCEPT !.smooth = x]
  /\ obs' = Obs("setSmooth")
  /\ Input
  /\ UNCHANGED << enabled, paneRef, listeners, alignOffset, data, dirty,
                  vCurrent, expectedA, expectedB, wheelRemaining, pumpRafId,
                  snapping, scrollTop, layout, pendingScroll, frames, pure >>

\* ------------------------------------------------------------------------
\* Public methods
\* ------------------------------------------------------------------------

\* invalidate().
InvalidateCall ==
  /\ dirty' = TRUE
  /\ obs' = Obs("invalidate")
  /\ UNCHANGED << enabled, paneRef, listeners, alignOffset, wheel, data,
                  vCurrent, expectedA, expectedB, wheelRemaining, pumpRafId,
                  snapping, scrollTop, layout, pendingScroll, frames, pure >>

Invalidate == InvalidateCall /\ Input

\* ensureMap() called by the host.  With the panes released (after
\* destroy) reading paneA.scrollHeight raises a TypeError.
EnsureMapCall ==
  /\ IF NeedBuild /\ ~paneRef
     THEN /\ obs' = [Obs("ensureMap") EXCEPT !.threw = TRUE]
          /\ UNCHANGED << data, dirty >>
     ELSE /\ data' = ensureMap
          /\ dirty' = FALSE
          /\ obs' = ObsBuild(Obs("ensureMap"))
  /\ UNCHANGED << enabled, paneRef, listeners, alignOffset, wheel,
                  vCurrent, expectedA, expectedB, wheelRemaining, pumpRafId,
                  snapping, scrollTop, layout, pendingScroll, frames, pure >>

EnsureMap == EnsureMapCall /\ Input

ScrollTo(v) ==
  /\ IF NeedBuild /\ ~paneRef
     THEN /\ obs' = [Obs("scrollTo") EXCEPT !.threw = TRUE]
          /\ UNCHANGED << data, dirty, vCurrent, expectedA, expectedB,
                          scrollTop, pendingScroll >>
     ELSE \E d \in {ensureMap} : \E v1 \in {Clamp(v, R(0), R(d.vTotal))} :
          \E o \in {[ObsBuild(Obs("scrollTo")) EXCEPT
                       !.clamped = Outside(d, v)]} :
            /\ data' = d
            /\ dirty' = FALSE
            /\ vCurrent' = v1
            /\ applyV(d, v1, o)
  /\ Input
  /\ UNCHANGED << enabled, paneRef, listeners, alignOffset, wheel,
                  wheelRemaining, pumpRafId, snapping, layout, frames, pure >>

\* Faulty variant: destroy() does not cancel the frame.
CancelPump_none == frames

\* What the scheduler still holds after destroy() has cancelled #pumpRafId.
CancelPump == frames \ {pumpRafId}

\* destroy().  A second call finds paneA null and raises a TypeError at
\* the first removeEventListener.
Destroy ==
  /\ enabled' = FALSE
  /\ wheelRemaining' = R(0)
  /\ snapping' = FALSE
  /\ pumpRafId' = NoFrame
  /\ frames' = CancelPump
  /\ IF paneRef
     THEN /\ listeners' = {}
          /\ paneRef' = FALSE
          /\ data' = NoMap
          /\ obs' = [Obs("destroy") EXCEPT !.cancelled = pumpRafId]
     ELSE /\ obs' = [Obs("destroy") EXCEPT !.cancelled = pumpRafId,
                                           !.threw = TRUE]
          /\ UNCHANGED << listeners, paneRef, data >>
  /\ Input
  /\ UNCHANGED << alignOffset, wheel, dirty, vCurrent, expectedA, expectedB,
                  scrollTop, layout, pendingScroll, pure >>

\* ------------------------------------------------------------------------
\* #handleScroll
\* ------------------------------------------------------------------------

Expected(p) == IF p = "a" THEN expectedA ELSE expectedB

\* Faulty variants of the echo test: the tolerance of an earlier release,
\* an inclusive comparison, and no echo guard at all.
IsEcho_tight(p, y) ==
  /\ Expected(p) # Null
  /\ RLt(RAbs(RSub(y, Expected(p))), R(ECHO_GUARD_PX - 1))

IsEcho_inclusive(p, y) ==
  /\ Expected(p) # Null
  /\ RLe(RAbs(RSub(y, Expected(p))), R(ECHO_GUARD_PX))

IsEcho_never(p, y) == FALSE

\* The echo test of #handleScroll with pane p at offset y: an expectation
\* is recorded for the pane and y is within ECHO_GUARD_PX of it.
IsEcho(p, y) ==
  /\ Expected(p) # Null
  /\ RLt(RAbs(RSub(y, Expected(p))), R(ECHO_GUARD_PX))

\* Faulty variants: the alignment offset forgotten, pane A's axis used for
\* both panes.
DeriveV_noOffset(d, source, y) ==
  Clamp(lookup(d.segments, IF source = "a" THEN "aPx" ELSE "bPx", "vPx", y),
        R(0), R(d.vTotal))

DeriveV_paneA(d, source, y) ==
  Clamp(lookup(d.segments, "aPx", "vPx", RAdd(y, R(alignOffset))),
        R(0), R(d.vTotal))

\* Faulty variant: while a pump is scheduled the position is not derived
\* anew.
DeriveV_stale(d, source, y) ==
  IF pumpRafId # NoFrame THEN vCurrent
  ELSE Clamp(lookup(d.segments, IF source = "a" THEN "aPx" ELSE "bPx", "vPx",
                    RAdd(y, R(alignOffset))),
             R(0), R(d.vTotal))

\* The virtual position #handleScroll derives from pane source at offset y.
DeriveV(d, source, y) ==
  Clamp(lookup(d.segments, IF source = "a" THEN "aPx" ELSE "bPx", "vPx",
               RAdd(y, R(alignOffset))),
        R(0), R(d.vTotal))

\* A scroll event of pane source is dispatched while the pane is at offset
\* y, and #handleScroll(source) runs.  (#applying is false whenever an event
\* is dispatched: #applyV sets and clears it within one handler run.)
HandleScroll(source, y) ==
  /\ ScrollListener(source) \in listeners
  /\ IF pendingScroll[source] /\ y = scrollTop[source]
     THEN UNCHANGED inputs ELSE Input
  /\ \E isA \in {source = "a"} : \E tgt \in {Other(source)} :
     \E cleared \in {[pendingScroll EXCEPT ![source] = FALSE]} :
     \E at \in {[scrollTop EXCEPT ![source] = y]} :
     \E o \in {[Obs("scroll") EXCEPT
                  !.src = source,
                  !.diff = IF Expected(source) = Null THEN Null
                           ELSE RAbs(RSub(y, Expected(source)))]} :
     IF ~enabled
     THEN /\ pendingScroll' = cleared
          /\ scrollTop' = at
          /\ obs' = [Obs("scroll") EXCEPT !.src = source]
          /\ UNCHANGED << data, dirty, vCurrent, expectedA, expectedB >>
     ELSE IF IsEcho(source, y)
     THEN /\ pendingScroll' = cleared
          /\ scrollTop' = at
          /\ expectedA' = IF isA THEN Null ELSE expectedA
          /\ expectedB' = IF isA THEN expectedB ELSE Null
          /\ obs' = [o EXCEPT !.echo = TRUE]
          /\ UNCHANGED << data, dirty, vCurrent >>
     ELSE \E d \in {ensureMap} :
          IF Len(d.segments) = 0
          THEN /\ pendingScroll' = cleared
               /\ scrollTop' = at
               /\ expectedA' = IF isA THEN Null ELSE expectedA
               /\ expectedB' = IF isA THEN expectedB ELSE Null
               /\ data' = d
               /\ dirty' = FALSE
               /\ obs' = ObsBuild(o)
               /\ UNCHANGED vCurrent
          ELSE \E raw \in {lookup(d.segments, IF isA THEN "aPx" ELSE "bPx",
                                  "vPx", RAdd(y, R(alignOffset)))} :
               \E v1 \in {DeriveV(d, source, y)} :
               \E z \in {PaneTarget(d, tgt, v1)} :
                 /\ data' = d
                 /\ dirty' = FALSE
                 /\ vCurrent' = v1
                 /\ scrollTop' = [at EXCEPT ![tgt] = z]
                 /\ expectedA' = IF isA THEN Null ELSE z
                 /\ expectedB' = IF isA THEN z ELSE Null
                 /\ pendingScroll' = [cleared EXCEPT ![tgt] = TRUE]
                 /\ obs' = [ObsBuild(o) EXCEPT
                              !.onSync = TRUE, !.wrote = {tgt},
                              !.clamped = Outside(d, raw)]
  /\ UNCHANGED << enabled, paneRef, listeners, alignOffset, wheel,
                  wheelRemaining, pumpRafId, snapping, layout, frames, pure >>

\* ------------------------------------------------------------------------
\* Wheel: #validateWheel, #onWheelEvent, #handleWheel
\* ------------------------------------------------------------------------

\* #validateWheel: non-numbers become the defaults, a negative snap 0.
validateWheel(w) ==
  [smooth |-> IF w.smooth = Null THEN [n |-> 1, d |-> 10] ELSE w.smooth,
   snap |-> IF w.snap = Null \/ RLt(w.snap, R(0)) THEN R(0) ELSE w.snap,
   brake |-> IF w.brake = NoBrake THEN NoBrake
             ELSE [factor |-> IF w.brake.factor = Null THEN R(1)
                              ELSE w.brake.factor,
                   zone |-> IF w.brake.zone = Null THEN R(0)
                            ELSE w.brake.zone]]

\* Smallest handle the scheduler has not handed out and that nobody holds.
FreshFrame(held) == CHOOSE i \in 1..(Cardinality(held) + 1) :
                      /\ i \notin held
                      /\ \A j \in 1..(i - 1) : j \in held

\* The normalised vertical delta of a wheel event.
WheelDy(e) ==
  IF e.deltaMode = 1 THEN e.deltaY * LINE_PX
  ELSE IF e.deltaMode = 2 THEN e.deltaY * L.clientHeightA
  ELSE e.deltaY

\* Faulty variant: only a smooth factor above 1 is instant.
IsInstant_strict(w) == RLt(R(1), w.smooth)

\* wheel.smooth at or above 1: the delta is applied in the handler.
IsInstant(w) == RLe(R(1), w.smooth)

\* Faulty variant: the meta key is not checked.
WheelIgnored_noMeta(e, w) ==
  \/ ~enabled \/ e.shiftKey \/ e.ctrlKey
  \/ (e.deltaX # 0 /\ e.deltaY = 0)
  \/ RLe(w.smooth, R(0))

\* The early returns of #onWheelEvent (w is the validated this.wheel).
WheelIgnored(e, w) ==
  \/ ~enabled \/ e.shiftKey \/ e.ctrlKey \/ e.metaKey
  \/ (e.deltaX # 0 /\ e.deltaY = 0)
  \/ RLe(w.smooth, R(0))

\* Faulty variant: an accepted wheel event leaves #snapping as it is.
SnappingAfterWheel_kept == snapping

\* #snapping after an accepted wheel event (this.#snapping = false).
SnappingAfterWheel == FALSE

\* Faulty variant: every accepted wheel event starts a pump.
PumpIdle_always == TRUE

\* No pump is scheduled (#pumpRafId === null).
PumpIdle == pumpRafId = NoFrame

\* #handleWheel(delta): clamp vCurrent + delta into the map, #applyV.
handleWheel(delta, o) ==
  \E d \in {ensureMap} :
  \E v1 \in {Clamp(RAdd(vCurrent, delta), R(0), R(d.vTotal))} :
  \E o1 \in {[ObsBuild(o) EXCEPT
                !.clamped = Outside(d, RAdd(vCurrent, delta))]} :
    /\ data' = d
    /\ dirty' = FALSE
    /\ vCurrent' = v1
    /\ applyV(d, v1, o1)

WheelEvent(e) ==
  /\ \E p \in Pane : WheelListener(p) \in listeners
  /\ Input
  /\ \E w \in {IF ~enabled \/ e.shiftKey \/ e.ctrlKey \/ e.metaKey
                 THEN wheel ELSE validateWheel(wheel)} :
     \E dy \in {R(WheelDy(e))} :
     \E o \in {[Obs("wheel") EXCEPT !.e = e]} :
     IF WheelIgnored(e, w)
     THEN /\ wheel' = w
          /\ obs' = o
          /\ UNCHANGED << data, dirty, vCurrent, expectedA, expectedB,
                          wheelRemaining, pumpRafId, snapping, scrollTop,
                          pendingScroll, frames >>
     ELSE /\ wheel' = w
          /\ snapping' = SnappingAfterWheel
          /\ \E o1 \in {[o EXCEPT !.prevented = TRUE,
                                   !.cutSnap = snapping]} :
             IF IsInstant(w)
             THEN /\ handleWheel(dy, o1)
                  /\ UNCHANGED << wheelRemaining, pumpRafId, frames >>
             ELSE /\ wheelRemaining' = RAdd(wheelRemaining, dy)
                  /\ IF PumpIdle
                     THEN \E id \in {FreshFrame(frames)} :
                          /\ pumpRafId' = id
                          /\ frames' = frames \cup {id}
                          /\ obs' = [o1 EXCEPT !.requested = id]
                     ELSE /\ obs' = o1
                          /\ UNCHANGED << pumpRafId, frames >>
                  /\ UNCHANGED << data, dirty, vCurrent, expectedA, expectedB,
                                  scrollTop, pendingScroll >>
  /\ UNCHANGED << enabled, paneRef, listeners, alignOffset, layout, pure >>

\* ------------------------------------------------------------------------
\* Pump: #findSegment, #anchorDamping, #trySnap, the frame callback
\* ------------------------------------------------------------------------

RECURSIVE FindLoop(_, _, _, _)
FindLoop(segs, v, lo, hi) ==
  IF lo < hi
  THEN LET mid == (lo + hi + 1) \div 2 IN
       IF RLe(R(segs[mid + 1].vPx), v) THEN FindLoop(segs, v, mid, hi)
       ELSE FindLoop(segs, v, lo, mid - 1)
  ELSE lo

\* 0-based index of the segment containing virtual position v.
findSegment(segs, v) == FindLoop(segs, v, 0, Len(segs) - 1)

\* Faulty variant: a snap pass is braked like a wheel pump.
anchorDamping_noBypass(d, v) ==
  IF wheel.brake = NoBrake THEN R(1)
  ELSE IF RLe(R(1), wheel.brake.factor) \/ RLe(wheel.brake.zone, R(0)) THEN R(1)
  ELSE IF Len(d.segments) = 0 THEN R(1)
  ELSE LET segments == d.segments
           i == findSegment(segments, v)
           d0 == RAbs(RSub(v, R(segments[i + 1].vPx)))
           minDist == IF i + 1 < Len(segments)
                      THEN RMin(d0, RAbs(RSub(v, R(segments[i + 2].vPx))))
                      ELSE d0
           t == RMin(RDiv(minDist, wheel.brake.zone), R(1))
           s == RMul(RMul(t, t), RSub(R(3), RMul(R(2), t)))
       IN  RAdd(wheel.brake.factor, RMul(RSub(R(1), wheel.brake.factor), s))

\* #anchorDamping on map d at virtual position v.
anchorDamping(d, v) ==
  IF snapping THEN R(1)
  ELSE IF wheel.brake = NoBrake THEN R(1)
  ELSE IF RLe(R(1), wheel.brake.factor) \/ RLe(wheel.brake.zone, R(0)) THEN R(1)
  ELSE IF Len(d.segments) = 0 THEN R(1)
  ELSE LET segments == d.segments
           i == findSegment(segments, v)
           d0 == RAbs(RSub(v, R(segments[i + 1].vPx)))
           minDist == IF i + 1 < Len(segments)
                      THEN RMin(d0, RAbs(RSub(v, R(segments[i + 2].vPx))))
                      ELSE d0
           t == RMin(RDiv(minDist, wheel.brake.zone), R(1))
           s == RMul(RMul(t, t), RSub(R(3), RMul(R(2), t)))
       IN  RAdd(wheel.brake.factor, RMul(RSub(R(1), wheel.brake.factor), s))

\* Faulty variant: every segment start is a snap candidate, flagged or not.
SnapVisit_all(d, snap, v, i, st) ==
  LET seg == d.segments[i + 1]
      dist == RAbs(RSub(v, R(seg.vPx)))
  IN  IF RLt(snap, dist) /\ st.minDist # Null /\ RLt(st.minDist, dist)
      THEN [st EXCEPT !.stop = TRUE]
      ELSE IF st.minDist = Null \/ RLt(dist, st.minDist)
      THEN [st EXCEPT !.minDist = dist, !.nearest = R(seg.vPx)]
      ELSE st

\* One iteration of either search loop of #trySnap on segment i (0-based);
\* st = [nearest, minDist, stop]; minDist = Null stands for Infinity.
SnapVisit(d, snap, v, i, st) ==
  LET seg == d.segments[i + 1]
      dist == RAbs(RSub(v, R(seg.vPx)))
  IN  IF RLt(snap, dist) /\ st.minDist # Null /\ RLt(st.minDist, dist)
      THEN [st EXCEPT !.stop = TRUE]
      ELSE IF d.hasSnap /\ ~seg.snap THEN st
      ELSE IF st.minDist = Null \/ RLt(dist, st.minDist)
      THEN [st EXCEPT !.minDist = dist, !.nearest = R(seg.vPx)]
      ELSE st

RECURSIVE SnapDown(_, _, _, _, _)
SnapDown(d, snap, v, i, st) ==
  IF i < 0 THEN st
  ELSE LET st1 == SnapVisit(d, snap, v, i, st) IN
       IF st1.stop THEN st1 ELSE SnapDown(d, snap, v, i - 1, st1)

RECURSIVE SnapUp(_, _, _, _, _)
SnapUp(d, snap, v, i, st) ==
  IF i >= Len(d.segments) THEN st
  ELSE LET st1 == SnapVisit(d, snap, v, i, st) IN
       IF st1.stop THEN st1 ELSE SnapUp(d, snap, v, i + 1, st1)

\* #trySnap with #snapping false: the nearest candidate and whether a snap
\* pass starts (d is #data, v is #vCurrent).
trySnap(d, v) ==
  LET snap == wheel.snap IN
  IF snap = Null \/ snap = R(0) \/ d = NoMap THEN [start |-> FALSE, nearest |-> R(0)]
  ELSE IF Len(d.segments) = 0 THEN [start |-> FALSE, nearest |-> R(0)]
  ELSE LET idx == findSegment(d.segments, v)
           st0 == [nearest |-> R(0), minDist |-> Null, stop |-> FALSE]
           down == SnapDown(d, snap, v, idx, st0)
           up == SnapUp(d, snap, v, idx + 1, [down EXCEPT !.stop = FALSE])
       IN  [start |-> /\ up.minDist # Null
                      /\ RLt(R(0), up.minDist)
                      /\ RLe(up.minDist, snap),
            nearest |-> up.nearest]

\* Faulty variant: the snap delta points away from the target.
SnapDelta_reversed(nearest, v) == RSub(v, nearest)

\* The remaining delta #trySnap sets for a snap pass to nearest.
SnapDelta(nearest, v) == RSub(nearest, v)

\* Faulty variant: a snap pass that has ended is followed by a new attempt.
SkipSnap_never == FALSE

\* The first test of #trySnap: the pump that ended was a snap pass.
SkipSnap == snapping

\* Faulty variant: the damped delta is retired from #wheelRemaining.
AfterDrain_damped(rem, drain, delta) == RSub(rem, delta)

\* #wheelRemaining after a frame: the undamped drain is retired.
AfterDrain(rem, drain, delta) == RSub(rem, drain)

\* Faulty variant: the callback does not look at the enabled flag.
Suspended_never == FALSE

\* The first test of the frame callback: the controller is disabled.
Suspended == ~enabled

\* The callback #pumpWheel hands to requestFrame, fired by the scheduler.
Frame(id) ==
  /\ id \in frames
  /\ IF Suspended
     THEN /\ pumpRafId' = NoFrame
          /\ frames' = frames \ {id}
          /\ obs' = Obs("frame")
          /\ UNCHANGED << data, dirty, vCurrent, expectedA, expectedB,
                          wheelRemaining, snapping, scrollTop, pendingScroll >>
     ELSE IF NeedBuild /\ ~paneRef
     THEN \* panes released: ensureMap raises a TypeError in #handleWheel
          /\ wheelRemaining' = RSub(wheelRemaining,
                                    RMul(wheelRemaining, wheel.smooth))
          /\ frames' = frames \ {id}
          /\ obs' = [Obs("frame") EXCEPT !.threw = TRUE]
          /\ UNCHANGED << data, dirty, vCurrent, expectedA, expectedB,
                          pumpRafId, snapping, scrollTop, pendingScroll >>
     ELSE \E d \in {ensureMap} :
          \E drain \in {RMul(wheelRemaining, wheel.smooth)} :
          \E delta \in {RMul(drain, anchorDamping(d, vCurrent))} :
          \E rem \in {AfterDrain(wheelRemaining, drain, delta)} :
          \E v1 \in {Clamp(RAdd(vCurrent, delta), R(0), R(d.vTotal))} :
          \E id2 \in {FreshFrame(frames \cup {pumpRafId})} :
          \E again \in {[Obs("frame") EXCEPT !.requested = id2]} :
          \E last \in {Obs("frame")} :
            IF RLe(R(PUMP_STOP_PX), RAbs(rem))
            THEN /\ wheelRemaining' = rem
                 /\ pumpRafId' = id2
                 /\ frames' = (frames \ {id}) \cup {id2}
                 /\ handleWheel(delta, again)
                 /\ UNCHANGED snapping
            ELSE IF SkipSnap
            THEN /\ wheelRemaining' = rem
                 /\ pumpRafId' = NoFrame
                 /\ frames' = frames \ {id}
                 /\ snapping' = FALSE
                 /\ handleWheel(delta, last)
            ELSE \E snapTo \in {trySnap(d, v1)} :
                 IF snapTo.start
                 THEN /\ wheelRemaining' = SnapDelta(snapTo.nearest, v1)
                      /\ pumpRafId' = id2
                      /\ frames' = (frames \ {id}) \cup {id2}
                      /\ snapping' = TRUE
                      /\ handleWheel(delta, again)
                 ELSE /\ wheelRemaining' = rem
                      /\ pumpRafId' = NoFrame
                      /\ frames' = frames \ {id}
                      /\ handleWheel(delta, last)
                      /\ UNCHANGED snapping
  /\ UNCHANGED << enabled, paneRef, listeners, alignOffset, wheel, layout,
                  inputs, pure >>

\* ------------------------------------------------------------------------
\* Specification
\* ------------------------------------------------------------------------

Next ==
  \/ \E l \in HostLayouts : ChangeLayout(l)
  \/ \E l \in HostLayouts : Rerender(l)
  \/ \E b \in BOOLEAN : SetEnabled(b)
  \/ Invalidate
  \/ EnsureMap
  \/ \E v \in ScrollToTargets : ScrollTo(v)
  \/ Destroy
  \/ \E p \in Pane : \E y \in UserOffsets(p) : HandleScroll(p, y)
  \/ \E e \in WheelEvents : WheelEvent(e)
  \/ \E id \in frames : Frame(id)

Spec == Init /\ [][Next]_vars

\* The same host with a controller constructed on the content whose
\* getAnchors throws, with a smoothed or an instant wheel.
RetryConfigs ==
  [layout : {3}, alignOffset : {0, 1},
   wheel : {Wheel(Half, R(0)), Wheel(R(1), R(0))}]

InitRetry ==
  /\ Fresh
  /\ \E c \in RetryConfigs : /\ layout = c.layout
                              /\ alignOffset = c.alignOffset
                              /\ wheel = c.wheel
  /\ args = NoCall
  /\ ret = NoCall

SpecRetry == InitRetry /\ [][Next]_vars

\* The same host with a controller whose wheel is braked.
InitBrake ==
  /\ Fresh
  /\ \E c \in BrakeConfigs : /\ layout = c.layout
                              /\ alignOffset = c.alignOffset
                              /\ wheel = c.wheel
  /\ args = NoCall
  /\ ret = NoCall

\* The braked controller with brake.factor = 0, the lower end of the
\* documented range of the factor, without snap.
StallConfigs ==
  [layout : {4}, alignOffset : {0, 1},
   wheel : {WheelBraked(Half, R(0), R(0), R(1)),
            WheelBraked(Half, R(0), R(0), R(2))}]

InitStall ==
  /\ Fresh
  /\ \E c \in StallConfigs : /\ layout = c.layout
                              /\ alignOffset = c.alignOffset
                              /\ wheel = c.wheel
  /\ args = NoCall
  /\ ret = NoCall

\* A session of at most MaxQuiet user gestures (a scroll of one pane, a
\* wheel event) on a controller that is otherwise left alone.  The host
\* dispatches the scroll event of every pane the controller wrote and
\* fires every frame it was asked for.
MaxQuiet == 1

UserScroll ==
  /\ inputs < MaxQuiet
  /\ \E p \in Pane : \E y \in UserOffsets(p) :
       /\ ~(pendingScroll[p] /\ y = scrollTop[p])
       /\ HandleScroll(p, y)

UserWheel == inputs < MaxQuiet /\ \E e \in WheelEvents : WheelEvent(e)

EchoScroll == \E p \in Pane : pendingScroll[p] /\ HandleScroll(p, scrollTop[p])

PumpFrame == \E id \in frames : Frame(id)

NextQuiet == UserScroll \/ UserWheel \/ EchoScroll \/ PumpFrame

\* The host's fairness: a queued scroll event is dispatched, a requested
\* frame fires.  PumpFrame is enabled exactly while the scheduler holds a
\* frame, so its weak fairness is written with that condition in place of
\* ENABLED.
FairFrames == []<>(frames = {}) \/ []<><<PumpFrame>>_vars

SpecQuiet == /\ Init /\ [][NextQuiet]_vars
             /\ WF_vars(EchoScroll)
             /\ FairFrames

\* The same session on a controller whose wheel is braked: the user turns
\* the wheel downwards, by pixels or by pages, or holds a modifier key.
BrakeEvents ==
  { Ev(2, 0, 0, FALSE, FALSE, FALSE), Ev(2, 0, 2, FALSE, FALSE, FALSE),
    Ev(2, 0, 0, TRUE, FALSE, FALSE) }

BrakeWheel == \E e \in BrakeEvents : WheelEvent(e)

NextBrake == BrakeWheel \/ EchoScroll \/ PumpFrame

SpecBrake == /\ InitBrake /\ [][NextBrake]_vars
             /\ WF_vars(EchoScroll)
             /\ FairFrames

\* The same session on the controller whose brake.factor is 0.
SpecStall ==
  /\ InitStall /\ [][NextBrake]_vars
  /\ WF_vars(EchoScroll) /\ FairFrames

\* A session in which the host also retunes the wheel: it sets
\* wheel.smooth to off, to instant or to twice the instant factor.
SmoothValues == {R(0), R(1), R(2)}

TuneWheel == \E e \in WheelEvents : WheelEvent(e)

TuneSmooth == \E x \in SmoothValues : SetSmooth(x)

NextTune == TuneWheel \/ TuneSmooth \/ EchoScroll \/ PumpFrame

SpecTune == /\ Init /\ [][NextTune]_vars
            /\ WF_vars(EchoScroll)
            /\ FairFrames

\* A host that only manages the map of a live controller: it calls
\* invalidate() and ensureMap() and replaces the content, MaxCalls times in
\* all.
MaxCalls == 3

Call == inputs < MaxCalls /\ inputs' = inputs + 1

NextMap ==
  \/ InvalidateCall /\ Call
  \/ EnsureMapCall /\ Call
  \/ \E l \in HostLayouts : ChangeLayoutTo(l) /\ Call

SpecMap == Init /\ [][NextMap]_vars

\* ------------------------------------------------------------------------
\* buildMap and lookup called directly
\* ------------------------------------------------------------------------

\* Anchor lists of at most MaxAnchors anchors.
MaxAnchors == 2

\* Anchor coordinates: negative, fractional (rounded up), inside and beyond
\* the extents; a few anchors are snap-flagged.
AVals == {R(-1), R(1), [n |-> 3, d |-> 2], R(5)}
BVals == {R(0), R(1), R(5)}

PureAnchors ==
  { A(a, b, FALSE) : a \in AVals, b \in BVals }
  \cup { A(R(1), R(1), TRUE), A([n |-> 3, d |-> 2], R(1), TRUE) }

RECURSIVE AnchorLists(_)
AnchorLists(n) ==
  IF n = 0 THEN { << >> }
  ELSE LET shorter == AnchorLists(n - 1) IN
       shorter \cup { Append(l, a) : l \in shorter, a \in PureAnchors }

\* Extents: negative, zero and positive.
ExtentsA == {-1, 0, 3}
ExtentsB == {-1, 0, 4}

Axes == {"aPx", "bPx", "vPx"}

\* The far end of an axis of map m.
AxisEnd(m, axis) ==
  IF axis = "vPx" THEN m.vTotal
  ELSE LET last == m.segments[Len(m.segments)] IN
       last[axis] + last[SIZE_KEY[axis]]

\* Positions looked up on an axis of map m: both ends, fractional and
\* integer positions.
LookupValues(m, axis) ==
  {R(0), Half, R(1), R(2), [n |-> 5, d |-> 2], R(AxisEnd(m, axis))}

InitPure ==
  /\ Fresh
  /\ layout = 1 /\ alignOffset = 0 /\ wheel = Wheel(R(1), R(0))
  /\ args \in [anchors : AnchorLists(MaxAnchors),
                sMaxA : ExtentsA, sMaxB : ExtentsB]
  /\ ret = NoCall

\* buildMap(anchors, sMaxA, sMaxB).
BuildMapCall ==
  /\ ret = NoCall
  /\ ret' = [fn |-> "buildMap",
             map |-> buildMap(args.anchors, args.sMaxA, args.sMaxB)]
  /\ UNCHANGED << ctl, scrollTop, layout, pendingScroll, frames, inputs,
                  obs, args >>

\* lookup(segments, from, to, value) on the segments of the map just built.
LookupCall(from, to, value) ==
  /\ ret.fn = "buildMap"
  /\ ret' = [fn |-> "lookup", map |-> ret.map, from |-> from, to |-> to,
             value |-> value,
             out |-> lookup(ret.map.segments, from, to, value)]
  /\ UNCHANGED << ctl, scrollTop, layout, pendingScroll, frames, inputs,
                  obs, args >>

\* lookup(segments, to, from, lookup(segments, from, to, value)): a value
\* converted to another axis and back.
RoundTripCall(from, to, value) ==
  /\ ret.fn = "buildMap"
  /\ \E mid \in {lookup(ret.map.segments, from, to, value)} :
       ret' = [fn |-> "roundTrip", map |-> ret.map, from |-> from,
               to |-> to, value |-> value, mid |-> mid,
               out |-> lookup(ret.map.segments, to, from, mid)]
  /\ UNCHANGED << ctl, scrollTop, layout, pendingScroll, frames, inputs,
                  obs, args >>

NextPure ==
  \/ BuildMapCall
  \/ /\ ret.fn = "buildMap"
     /\ \E from \in Axes : \E to \in Axes \ {from} :
          \E value \in LookupValues(ret.map, from) :
            LookupCall(from, to, value)
  \/ /\ ret.fn = "buildMap"
     /\ \E from \in Axes : \E to \in Axes \ {from} :
          \E value \in LookupValues(ret.map, from) :
            ("vPx" \in {from, to}) /\ RoundTripCall(from, to, value)

SpecPure == InitPure /\ [][NextPure]_vars

\* lookup called directly on built maps and on an empty segment list, at
\* positions inside [0, end of axis] and on either side of it.
SearchValues(m, axis) ==
  LookupValues(m, axis) \cup {R(-1), R(AxisEnd(m, axis) + 1)}

\* lookup([], from, to, value).
LookupEmptyCall(from, to, value) ==
  /\ ret = NoCall
  /\ ret' = [fn |-> "lookup", map |-> EmptyMap, from |-> from, to |-> to,
             value |-> value,
             out |-> lookup(EmptyMap.segments, from, to, value)]
  /\ UNCHANGED << ctl, scrollTop, layout, pendingScroll, frames, inputs,
                  obs, args >>

NextSearch ==
  \/ BuildMapCall
  \/ /\ ret.fn = "buildMap"
     /\ \E from \in Axes : \E to \in Axes \ {from} :
          \E value \in SearchValues(ret.map, from) :
            LookupCall(from, to, value)
  \/ \E from \in Axes : \E to \in Axes \ {from} :
       \E value \in {R(-1), R(0), Half, R(2)} :
         LookupEmptyCall(from, to, value)

SpecSearch == InitPure /\ [][NextSearch]_vars

\* buildMap on lists of at most MaxDropAnchors anchors that lie off the
\* start of pane A, some fractional, some beyond the extent of pane B.
MaxDropAnchors == 3

DropAnchors ==
  { A(a, b, FALSE) : a \in {R(1), R(2), [n |-> 5, d |-> 2], R(3)},
                     b \in {R(1), R(2), R(5)} }

RECURSIVE DropLists(_)
DropLists(n) ==
  IF n = 0 THEN { << >> }
  ELSE LET shorter == DropLists(n - 1) IN
       shorter \cup { Append(l, a) : l \in shorter, a \in DropAnchors }

InitDrop ==
  /\ Fresh
  /\ layout = 1 /\ alignOffset = 0 /\ wheel = Wheel(R(1), R(0))
  /\ args \in [anchors : DropLists(MaxDropAnchors),
                sMaxA : {2, 3}, sMaxB : {4}]
  /\ ret = NoCall

NextDrop == BuildMapCall

SpecDrop == InitDrop /\ [][NextDrop]_vars

\* ------------------------------------------------------------------------
\* Properties
\* ------------------------------------------------------------------------

Axis(p) == IF p = "a" THEN "aPx" ELSE "bPx"

\* The scroll event of pane p at offset y is within the echo guard of a
\* recorded expectation.
\* (#handleScroll never writes the pane its event came from: after a scroll
\* step of pane p, scrollTop'[p] is the offset the handler found p at.)
WithinGuard(p, y) ==
  /\ Expected(p) # Null
  /\ RLt(RAbs(RSub(y, Expected(p))), R(ECHO_GUARD_PX))

\* C1: a scroll event on pane X, handled while enabled, that finds X within
\* ECHO_GUARD_PX of the value the controller recorded for X is discarded:
\* vCurrent, the opposite pane's offset and expectation stay as they were,
\* onSync is not called, and X's expectation is cleared.
C1_EchoAbsorbed ==
  [][obs'.op = "scroll" => \A p \in {obs'.src} : \A y \in {scrollTop'[p]} :
       (enabled /\ WithinGuard(p, y))
       => /\ vCurrent' = vCurrent
          /\ scrollTop'[Other(p)] = scrollTop[Other(p)]
          /\ IF p = "a" THEN expectedB' = expectedB ELSE expectedA' = expectedA
          /\ IF p = "a" THEN expectedA' = Null ELSE expectedB' = Null
          /\ ~obs'.onSync
          /\ obs'.wrote = {}]_vars

\* An event two pixels off the recorded write was absorbed.
C1_Witness ==
  /\ obs.op = "scroll" /\ obs.echo
  /\ obs.diff = R(ECHO_GUARD_PX - 1)
  /\ vCurrent # R(0)

\* Nothing of the controller is waiting to run.
Quiescent == /\ \A p \in Pane : ~pendingScroll[p]
             /\ frames = {} /\ pumpRafId = NoFrame

\* C2: with one scroll event dispatched per controller write and no input
\* beyond the user's gesture, the scroll events of the controller's own
\* writes are absorbed (no pane written, vCurrent kept), a user scroll of
\* a pane writes at most the other pane, and the controller ends up
\* quiescent for good.
C2_NoPingPong ==
  /\ [][EchoScroll => /\ obs'.wrote = {} /\ ~obs'.onSync
                      /\ vCurrent' = vCurrent
                      /\ scrollTop' = scrollTop]_vars
  /\ [][obs'.op = "scroll" => obs'.wrote \subseteq {Other(obs'.src)}]_vars
  /\ <>[]Quiescent

\* After a user scroll of pane A moved pane B, the event of that write was
\* absorbed and nothing is left to run.
C2_Witness ==
  /\ obs.op = "scroll" /\ obs.echo /\ obs.diff = R(0)
  /\ inputs = 1 /\ Quiescent
  /\ vCurrent # R(0) /\ expectedA = Null /\ expectedB = Null
  /\ scrollTop["a"] # R(0) /\ scrollTop["b"] # R(0)

\* C3: a scroll event on pane X, handled while enabled with a non-empty
\* map, with no expectation recorded for X or X at ECHO_GUARD_PX or more
\* from it, re-derives vCurrent from X's offset, writes only the opposite
\* pane, and records the written value as that pane's expectation.
C3_GenuineScroll ==
  [][obs'.op = "scroll" => \A p \in {obs'.src} : \A y \in {scrollTop'[p]} :
       (/\ enabled /\ ~WithinGuard(p, y)
        /\ data' # NoMap /\ Len(data'.segments) > 0)
       => \A q \in {Other(p)} : \A d \in {data'} :
          \A v \in {RMax(R(0), RMin(R(d.vTotal),
                      lookup(d.segments, Axis(p), "vPx",
                             RAdd(y, R(alignOffset)))))} :
          \A z \in {RSub(lookup(d.segments, "vPx", Axis(q), v),
                         R(alignOffset))} :
            /\ vCurrent' = v
            /\ scrollTop' = [scrollTop EXCEPT ![p] = y, ![q] = z]
            /\ obs'.wrote = {q}
            /\ IF p = "a" THEN expectedB' = z ELSE expectedA' = z]_vars

\* An event exactly ECHO_GUARD_PX off the recorded write re-synced.
C3_Witness ==
  /\ obs.op = "scroll" /\ obs.wrote # {}
  /\ obs.diff = R(ECHO_GUARD_PX)

\* The anchors buildMap kept in map d are the starts of its segments after
\* the first.
KeptIndex(d) == IF d = NoMap THEN {} ELSE 2..Len(d.segments)

\* C4: a genuine scroll event on pane A at anchor.aPx - alignOffset puts
\* pane B at anchor.bPx - alignOffset, for every anchor kept in the map.
C4_AnchorAtoB ==
  [][obs'.op = "scroll" => \A y \in {scrollTop'["a"]} :
       (obs'.src = "a" /\ enabled /\ ~WithinGuard("a", y))
       => \A i \in KeptIndex(data') :
            y = R(data'.segments[i].aPx - alignOffset)
            => scrollTop'["b"] = R(data'.segments[i].bPx - alignOffset)]_vars

\* Pane A was scrolled to an aligned anchor, with a non-zero alignOffset.
C4_Witness ==
  /\ obs.op = "scroll" /\ obs.wrote = {"b"} /\ alignOffset # 0
  /\ \E i \in KeptIndex(data) :
       /\ scrollTop["a"] = R(data.segments[i].aPx - alignOffset)
       /\ scrollTop["b"] = R(data.segments[i].bPx - alignOffset)

\* C5 as stated: a genuine scroll event on pane B at anchor.bPx -
\* alignOffset puts pane A at anchor.aPx - alignOffset, for every anchor
\* kept in the map.
C5_AnchorBtoA_AsStated ==
  [][obs'.op = "scroll" => \A y \in {scrollTop'["b"]} :
       (obs'.src = "b" /\ enabled /\ ~WithinGuard("b", y))
       => \A i \in KeptIndex(data') :
            y = R(data'.segments[i].bPx - alignOffset)
            => scrollTop'["a"] = R(data'.segments[i].aPx - alignOffset)]_vars

\* C5 (amended): the same, for every kept anchor that is the last kept
\* anchor with its bPx (no later segment starts at the same bPx).
C5_AnchorBtoA ==
  [][obs'.op = "scroll" => \A y \in {scrollTop'["b"]} :
       (obs'.src = "b" /\ enabled /\ ~WithinGuard("b", y))
       => \A i \in KeptIndex(data') :
            (/\ y = R(data'.segments[i].bPx - alignOffset)
             /\ \A j \in KeptIndex(data') :
                  j > i => data'.segments[j].bPx # data'.segments[i].bPx)
            => scrollTop'["a"] = R(data'.segments[i].aPx - alignOffset)]_vars

\* Pane B was scrolled to an aligned anchor whose bPx an earlier kept
\* anchor shares; pane A is at the later anchor.
C5_Witness ==
  /\ obs.op = "scroll" /\ obs.wrote = {"a"}
  /\ \E i \in KeptIndex(data) : \E j \in KeptIndex(data) :
       /\ j < i
       /\ data.segments[j].bPx = data.segments[i].bPx
       /\ scrollTop["b"] = R(data.segments[i].bPx - alignOffset)
       /\ scrollTop["a"] = R(data.segments[i].aPx - alignOffset)

\* A wheel event the handler accepts.
Accepted(e) ==
  /\ enabled /\ ~e.shiftKey /\ ~e.ctrlKey /\ ~e.metaKey
  /\ ~(e.deltaX # 0 /\ e.deltaY = 0)
  /\ RLt(R(0), wheel.smooth)

\* deltaY in pixels: times 16 in line mode, times pane A's clientHeight in
\* page mode.
Dy(e) ==
  R(CASE e.deltaMode = 1 -> e.deltaY * 16
      [] e.deltaMode = 2 -> e.deltaY * L.clientHeightA
      [] OTHER -> e.deltaY)

\* C6: an accepted wheel event is applied in its own handler exactly when
\* wheel.smooth >= 1 (vCurrent clamped, both panes written, no frame
\* scheduled); with 0 < wheel.smooth < 1 the handler only adds dy to
\* wheelRemaining and leaves vCurrent and both panes alone.
C6_InstantOrDeferred ==
  [][obs'.op = "wheel" => \A e \in {obs'.e} :
       Accepted(e)
       => IF RLe(R(1), wheel.smooth)
          THEN /\ obs'.wrote = Pane
               /\ data' # NoMap
               /\ vCurrent' = RMax(R(0), RMin(R(data'.vTotal),
                                               RAdd(vCurrent, Dy(e))))
               /\ \A p \in Pane :
                    scrollTop'[p] = RSub(lookup(data'.segments, "vPx", Axis(p),
                                                vCurrent'), R(alignOffset))
               /\ obs'.requested = NoFrame
               /\ frames' = frames
               /\ wheelRemaining' = wheelRemaining
          ELSE /\ wheelRemaining' = RAdd(wheelRemaining, Dy(e))
               /\ vCurrent' = vCurrent
               /\ scrollTop' = scrollTop
               /\ obs'.wrote = {}]_vars

\* A wheel event with smooth = 1 moved the position in its own handler.
C6_Witness ==
  /\ obs.op = "wheel" /\ obs.prevented /\ obs.wrote = Pane
  /\ wheel.smooth = R(1)
  /\ vCurrent # R(0) /\ ~obs.clamped

\* C7: after every application of a virtual position (a handler that wrote
\* a pane) 0 <= vCurrent <= vTotal of the map the handler used, and the
\* handler raised no error.
C7_Clamped ==
  obs.wrote # {} =>
    /\ data # NoMap
    /\ RLe(R(0), vCurrent)
    /\ RLe(vCurrent, R(data.vTotal))
    /\ ~obs.threw

\* A pump frame whose step would have left the map was clamped at its end.
C7_Witness ==
  /\ obs.op = "frame" /\ obs.clamped /\ obs.wrote = Pane
  /\ data.vTotal > 0
  /\ vCurrent = R(data.vTotal)

\* An accepted event applied in its own handler; the damped drain a frame
\* applies.
InstantStep(e) == Accepted(e) /\ RLe(R(1), wheel.smooth)
FrameDelta == RMul(RMul(wheelRemaining, wheel.smooth),
                   anchorDamping(ensureMap, vCurrent))

\* C8: a wheel delta at or beyond the distance to 0 leaves
\* vCurrent at exactly 0 and both panes at offset 0, and the controller
\* never writes a negative offset to a pane (checked on the writes of
\* wheel handlers and pump frames).
C8_WheelClamp ==
  [][/\ obs'.op = "wheel" => \A e \in {obs'.e} :
          (InstantStep(e) /\ RLe(RAdd(vCurrent, Dy(e)), R(0)))
          => /\ vCurrent' = R(0)
             /\ \A p \in Pane : scrollTop'[p] = R(0)
     /\ (obs'.op = "frame" /\ obs'.wrote # {})
          => (RLe(RAdd(vCurrent, FrameDelta), R(0))
              => /\ vCurrent' = R(0)
                 /\ \A p \in Pane : scrollTop'[p] = R(0))
     /\ obs'.op \in {"wheel", "frame"}
          => \A p \in obs'.wrote : RLe(R(0), scrollTop'[p])]_vars

\* C9: a wheel event received while disabled, with shift, ctrl or meta
\* held, with horizontal motion only, or while wheel.smooth <= 0 is
\* ignored: no preventDefault, and vCurrent, wheelRemaining, the snapping
\* flag, the frame handle, both expectations and both panes are unchanged.
C9_WheelIgnored ==
  [][obs'.op = "wheel" => \A e \in {obs'.e} :
       (\/ ~enabled \/ e.shiftKey \/ e.ctrlKey \/ e.metaKey
        \/ (e.deltaX # 0 /\ e.deltaY = 0)
        \/ RLe(wheel.smooth, R(0)))
       => /\ ~obs'.prevented
          /\ obs'.requested = NoFrame
          /\ UNCHANGED << vCurrent, wheelRemaining, snapping, pumpRafId,
                          expectedA, expectedB, scrollTop, frames >>]_vars

\* A wheel event was ignored while a pump was in flight.
C9_Witness ==
  /\ obs.op = "wheel" /\ ~obs.prevented
  /\ pumpRafId # NoFrame /\ wheelRemaining # R(0)

\* C10: destroy() disables the controller, removes all four listeners and
\* cancels exactly the outstanding frame, if any; from then on the
\* scheduler holds no frame of the controller and no step writes a pane.
C10_Destroy ==
  [][/\ (obs'.op = "destroy" /\ paneRef)
          => /\ ~enabled'
             /\ listeners' = {}
             /\ obs'.cancelled = (IF frames = {} THEN NoFrame
                                  ELSE CHOOSE f \in frames : TRUE)
             /\ frames' = {}
             /\ Cardinality(frames) <= 1
     /\ ~paneRef'
          => /\ frames' = {}
             /\ obs'.wrote = {}
             /\ scrollTop' = scrollTop]_vars

\* destroy() cancelled the frame of a snap pass.
C10_Witness ==
  /\ obs.op = "destroy" /\ obs.cancelled # NoFrame /\ ~obs.threw
  /\ ~paneRef /\ frames = {}
  /\ wheel.snap # R(0) /\ vCurrent # R(0)

\* C11: a call of destroy() on a controller that is already destroyed
\* completes without raising an error, without writing a pane and without
\* calling cancelFrame.
C11_DestroyAgain ==
  [][(obs'.op = "destroy" /\ ~paneRef)
       => /\ ~obs'.threw
          /\ obs'.cancelled = NoFrame
          /\ obs'.wrote = {}
          /\ scrollTop' = scrollTop]_vars

\* C12: on a destroyed controller invalidate(), ensureMap(), scrollTo() and
\* any scroll, wheel or frame callback raise no error, write no pane and
\* do not call getAnchors.
C12_AfterDestroy ==
  [][(/\ ~paneRef
      /\ obs'.op \in {"invalidate", "ensureMap", "scrollTo", "scroll",
                       "wheel", "frame"})
       => /\ ~obs'.threw
          /\ obs'.wrote = {}
          /\ ~obs'.built]_vars

\* C13: on a live controller the constructor builds no map; ensureMap()
\* rebuilds (getAnchors, onMapBuilt) exactly when the dirty flag is set or
\* no map is cached, returns the cached map otherwise, and leaves the flag
\* clear; invalidate() sets the flag and does nothing else.
C13_LazyCache ==
  /\ [](obs.op = "constructor" => (data = NoMap /\ dirty /\ ~obs.built))
  /\ [][obs'.op = "ensureMap"
          => /\ obs'.built = (dirty \/ data = NoMap)
             /\ ~dirty'
             /\ ~obs'.threw
             /\ data' = IF dirty \/ data = NoMap THEN BuiltMap[layout]
                        ELSE data]_vars
  /\ [][obs'.op = "invalidate"
          => /\ dirty'
             /\ ~obs'.built
             /\ UNCHANGED << data, layout, scrollTop >>]_vars

\* The third call of the host was an ensureMap() that rebuilt a map which
\* had been built before.
C13_Witness ==
  /\ obs.op = "ensureMap" /\ obs.built /\ ~dirty
  /\ inputs >= 3 /\ data = BuiltMap[layout] /\ ~L.throws

\* C14: a rebuild in which getAnchors (or buildMap) throws raises no error
\* out of ensureMap(): the empty map is cached, onError is called, the
\* dirty flag is cleared and onMapBuilt is called; onError is called in no
\* other case.
C14_RebuildError ==
  /\ [][(obs'.op = "ensureMap" /\ (dirty \/ data = NoMap))
          => /\ ~obs'.threw
             /\ ~dirty'
             /\ obs'.built
             /\ obs'.onError = L.throws
             /\ L.throws => data' = [segments |-> << >>, vTotal |-> 0,
                                     droppedCount |-> 0,
                                     hasSnap |-> FALSE]]_vars
  /\ [](obs.onError => (obs.built /\ L.throws))

\* ensureMap() fell back to the empty map after the content was replaced
\* by one whose getAnchors throws.
C14_Witness ==
  /\ obs.op = "ensureMap" /\ obs.onError /\ obs.built
  /\ data = EmptyMap /\ ~dirty /\ inputs >= 2

\* C15: while the cached map is the empty fallback, no wheel or scroll
\* event makes the controller change a pane's offset (the pane a scroll
\* event comes from is where the user put it).
C15_EmptyMapNoEffect ==
  [][(/\ obs'.op \in {"scroll", "wheel"}
      /\ data = EmptyMap /\ ~dirty)
       => \A p \in Pane :
            p # obs'.src => scrollTop'[p] = scrollTop[p]]_vars

\* C16: while enabled is false no scroll event, wheel event or frame
\* changes vCurrent or writes a pane, and a frame that fires ends the pump:
\* the handle is cleared and no frame is requested.
C16_Disabled ==
  [][(~enabled /\ obs'.op \in {"scroll", "wheel", "frame"})
       => /\ vCurrent' = vCurrent
          /\ obs'.wrote = {}
          /\ \A p \in Pane : p # obs'.src => scrollTop'[p] = scrollTop[p]
          /\ obs'.op = "frame" => /\ pumpRafId' = NoFrame
                                  /\ obs'.requested = NoFrame
                                  /\ frames' = {}]_vars

\* A frame fired on a disabled, live controller with wheel delta pending.
C16_Witness ==
  /\ obs.op = "frame" /\ ~enabled /\ paneRef
  /\ wheelRemaining # R(0)
  /\ pumpRafId = NoFrame /\ frames = {}

\* The virtual position a snap pass in flight is heading for.
SnapTarget == RAdd(vCurrent, wheelRemaining)

RECURSIVE SumVS(_)
SumVS(segs) == IF segs = << >> THEN 0
               ELSE segs[1].vS + SumVS(SubSeq(segs, 2, Len(segs)))

\* C18: buildMap returns at least one segment; consecutive segments are
\* contiguous on the three axes; the first starts at (0, 0, 0); the last
\* ends at (extentA, extentB, vTotal), negative extents counting as 0; and
\* vTotal is the sum of all vS.
C18_Contiguous ==
  ret.fn = "buildMap" =>
    LET segs == ret.map.segments
        n == Len(segs)
    IN  /\ n >= 1
        /\ \A i \in 1..(n - 1) :
             /\ segs[i].aPx + segs[i].aS = segs[i + 1].aPx
             /\ segs[i].bPx + segs[i].bS = segs[i + 1].bPx
             /\ segs[i].vPx + segs[i].vS = segs[i + 1].vPx
        /\ segs[1].aPx = 0 /\ segs[1].bPx = 0 /\ segs[1].vPx = 0
        /\ segs[n].aPx + segs[n].aS = (IF args.sMaxA < 0 THEN 0 ELSE args.sMaxA)
        /\ segs[n].bPx + segs[n].bS = (IF args.sMaxB < 0 THEN 0 ELSE args.sMaxB)
        /\ segs[n].vPx + segs[n].vS = ret.map.vTotal
        /\ ret.map.vTotal = SumVS(segs)

\* A map of three segments, built from two kept anchors.
C18_Witness ==
  /\ ret.fn = "buildMap" /\ Len(ret.map.segments) = 3
  /\ ret.map.vTotal > 0 /\ ret.map.segments[3].vPx > ret.map.segments[2].vPx

\* C19: every segment of a built map has vS = max(aS, bS); where vS > 0
\* the larger of aS/vS and bS/vS is exactly 1.
C19_DominantAxis ==
  ret.fn = "buildMap" =>
    \A i \in 1..Len(ret.map.segments) :
      LET seg == ret.map.segments[i] IN
      /\ seg.vS >= seg.aS /\ seg.vS >= seg.bS
      /\ seg.vS = seg.aS \/ seg.vS = seg.bS
      /\ seg.vS > 0 => RMax(RDiv(R(seg.aS), R(seg.vS)),
                            RDiv(R(seg.bS), R(seg.vS))) = R(1)

\* A map with a segment in which pane A has more content and one in which
\* pane B has, both panes moving in each.
C19_Witness ==
  /\ ret.fn = "buildMap"
  /\ \E i \in 1..Len(ret.map.segments) :
       ret.map.segments[i].aS > ret.map.segments[i].bS
       /\ ret.map.segments[i].bS > 0
  /\ \E i \in 1..Len(ret.map.segments) :
       ret.map.segments[i].bS > ret.map.segments[i].aS
       /\ ret.map.segments[i].aS > 0

\* C20: on a built map, lookup from the virtual axis at 0 returns 0 on
\* either pane, and at vTotal returns the pane's extent.
C20_Boundary ==
  (ret.fn = "lookup" /\ ret.from = "vPx") =>
    /\ ret.value = R(0) => ret.out = R(0)
    /\ ret.value = R(ret.map.vTotal)
         => ret.out = R(IF ret.to = "aPx"
                        THEN (IF args.sMaxA < 0 THEN 0 ELSE args.sMaxA)
                        ELSE (IF args.sMaxB < 0 THEN 0 ELSE args.sMaxB))

\* The end of the virtual axis of a map of several segments was looked up
\* on pane B.
C20_Witness ==
  /\ ret.fn = "lookup" /\ ret.from = "vPx" /\ ret.to = "bPx"
  /\ Len(ret.map.segments) >= 2
  /\ ret.map.vTotal > 0 /\ ret.value = R(ret.map.vTotal)
  /\ ret.out = R(args.sMaxB) /\ args.sMaxB > 0

\* C21: on every built map a position x of pane A within [0, extentA]
\* converted to the virtual axis and back is x again, and so is a position
\* y of pane B within [0, extentB], also on maps with segments in which
\* one pane does not move.
C21_RoundTrip ==
  (/\ ret.fn = "roundTrip" /\ ret.to = "vPx"
   /\ RLe(R(0), ret.value)
   /\ RLe(ret.value, R(AxisEnd(ret.map, ret.from))))
    => ret.out = ret.value

\* A fractional position of pane B went through the virtual axis, where it
\* is another number, on a map with a segment in which pane B does not
\* move and one in which pane A does not.
C21_Witness ==
  /\ ret.fn = "roundTrip" /\ ret.from = "bPx" /\ ret.to = "vPx"
  /\ ~IsInt(ret.value) /\ RLt(ret.value, R(AxisEnd(ret.map, "bPx")))
  /\ ret.mid # ret.value /\ ret.out = ret.value
  /\ \E i \in 1..Len(ret.map.segments) :
       ret.map.segments[i].bS = 0 /\ ret.map.segments[i].aS > 0
  /\ \E i \in 1..Len(ret.map.segments) :
       ret.map.segments[i].aS = 0 /\ ret.map.segments[i].bS > 0

\* The anchors of the call as buildMap's loop visits them: rounded,
\* clamped into the extents and sorted by aPx.
Visited ==
  SortByA([i \in 1..Len(args.anchors) |->
             ClampAnchor(args.anchors[i], IMax(0, args.sMaxA),
                         IMax(0, args.sMaxB))])

\* The visited anchors have distinct positive aPx.
DistinctA ==
  /\ \A i \in 1..Len(Visited) : Visited[i].aPx > 0
  /\ \A i \in 1..Len(Visited) : \A j \in 1..Len(Visited) :
       i # j => Visited[i].aPx # Visited[j].aPx

\* Rounding and clamping change no anchor of the call.
Untouched ==
  \A i \in 1..Len(args.anchors) :
    LET e == args.anchors[i]
        c == ClampAnchor(e, IMax(0, args.sMaxA), IMax(0, args.sMaxB))
    IN  e.aPx = R(c.aPx) /\ e.bPx = R(c.bPx)

\* The visited anchors whose bPx is lower than their predecessor's.
BelowPredecessor ==
  { i \in 2..Len(Visited) : Visited[i].bPx < Visited[i - 1].bPx }

\* The visited anchors whose bPx is lower than that of some anchor before
\* them.
BelowEarlier ==
  { i \in 2..Len(Visited) :
      \E j \in 1..(i - 1) : Visited[i].bPx < Visited[j].bPx }

\* C22 as stated: a list (of whole-pixel anchors within the extents, at
\* distinct positive aPx) in which exactly one anchor's bPx is lower than
\* its predecessor's gives droppedCount = 1 and one more segment than
\* accepted anchors.
C22_MonotonicDrop_AsStated ==
  (/\ ret.fn = "buildMap" /\ Untouched /\ DistinctA
   /\ Cardinality(BelowPredecessor) = 1)
    => /\ ret.map.droppedCount = 1
       /\ Len(ret.map.segments) = (Len(args.anchors) - 1) + 1

\* C22: a list whose anchors have, after rounding and clamping, distinct
\* positive aPx and in which exactly one anchor's bPx is lower than the
\* bPx of an anchor before it in aPx order gives droppedCount = 1 and one
\* more segment than accepted anchors.
C22_MonotonicDrop ==
  (/\ ret.fn = "buildMap" /\ DistinctA
   /\ Cardinality(BelowEarlier) = 1)
    => /\ ret.map.droppedCount = 1
       /\ Len(ret.map.segments) = (Len(args.anchors) - 1) + 1

\* Three anchors, the second as low as the first and the third below
\* both: one is dropped.
C22_Witness ==
  /\ ret.fn = "buildMap" /\ DistinctA /\ Len(Visited) = 3
  /\ Visited[2].bPx = Visited[1].bPx
  /\ BelowEarlier = {3}
  /\ ret.map.droppedCount = 1 /\ Len(ret.map.segments) = 3

\* C23: between handler runs at most one requested frame is outstanding,
\* and #pumpRafId is non-null exactly when one is, of which it is then the
\* handle.
C23_OneFrame ==
  /\ Cardinality(frames) <= 1
  /\ pumpRafId # NoFrame <=> frames # {}
  /\ frames \subseteq {pumpRafId}

\* A wheel event was accepted while a pump was scheduled: it added to
\* #wheelRemaining and requested no frame.
C23_Witness ==
  /\ obs.op = "wheel" /\ obs.prevented /\ ~IsInstant(wheel)
  /\ obs.requested = NoFrame
  /\ Cardinality(frames) = 1 /\ pumpRafId \in frames

\* What a frame leaves of #wheelRemaining: the part its drain did not
\* retire.
Undrained == RSub(wheelRemaining, RMul(wheelRemaining, wheel.smooth))

\* C24: on an enabled controller with 0 < wheel.smooth < 1 that gets no
\* more wheel events, a running pump ends after finitely many frames; a
\* snap pass begins only in the frame that ends an ordinary pump; the frame
\* that ends a snap pass begins no other pass and requests no frame; and
\* after it no frame is scheduled.
C24_PumpEnds ==
  /\ [][(/\ obs'.op = "frame" /\ enabled /\ snapping /\ frames # {}
          /\ RLt(RAbs(Undrained), R(PUMP_STOP_PX)))
          => (~snapping' /\ frames' = {} /\ pumpRafId' = NoFrame)]_vars
  /\ [][(~snapping /\ snapping')
          => (/\ obs'.op = "frame" /\ frames # {}
              /\ RLt(RAbs(Undrained), R(PUMP_STOP_PX)))]_vars
  /\ ((frames # {}) ~> (frames = {} /\ ~snapping /\ pumpRafId = NoFrame))

\* A snap pass towards a snap-flagged anchor has ended within snap range
\* of it and short of it, and nothing is scheduled.
C24_Witness ==
  /\ obs.op = "frame" /\ obs.requested = NoFrame
  /\ ~snapping /\ frames = {} /\ pumpRafId = NoFrame
  /\ wheelRemaining # R(0) /\ RLe(RAbs(wheelRemaining), wheel.snap)
  /\ \E i \in 1..Len(data.segments) :
       data.segments[i].snap /\ R(data.segments[i].vPx) = SnapTarget

\* The distance from v to the nearest segment start of map d.
RECURSIVE NearestStart(_, _, _)
NearestStart(d, v, i) ==
  LET dist == RAbs(RSub(v, R(d.segments[i].vPx))) IN
  IF i = Len(d.segments) THEN dist
  ELSE RMin(dist, NearestStart(d, v, i + 1))

\* The damping of a frame on map d at v: 1 in a snap pass, without a brake
\* and on an empty map, else factor + (1 - factor) * smoothstep(t) with
\* t = min(nearest distance / zone, 1).
Damping(d, v) ==
  IF snapping \/ wheel.brake = NoBrake \/ Len(d.segments) = 0 THEN R(1)
  ELSE IF RLe(R(1), wheel.brake.factor) \/ RLe(wheel.brake.zone, R(0))
  THEN R(1)
  ELSE LET near == NearestStart(d, v, 1)
           t == IF RLe(wheel.brake.zone, near) THEN R(1)
                ELSE RDiv(near, wheel.brake.zone)
           smoothstep == RMul(RMul(t, t), RSub(R(3), RAdd(t, t)))
       IN  RAdd(wheel.brake.factor,
                RMul(RSub(R(1), wheel.brake.factor), smoothstep))

\* C25: a frame that fires on an enabled controller makes one step: with
\* drain = wheelRemaining * wheel.smooth, vCurrent becomes vCurrent + drain
\* * damping clamped to [0, vTotal], both panes are written from it, and
\* the undamped drain is retired from wheelRemaining; when the rest is at
\* least PUMP_STOP_PX another frame is requested, otherwise the pump ends
\* and the only frame that can follow is that of a snap pass begun in the
\* same step.
C25_FrameStep ==
  [][(obs'.op = "frame" /\ enabled /\ frames # {})
       => \A drain \in {RMul(wheelRemaining, wheel.smooth)} :
          \A rest \in {RSub(wheelRemaining, drain)} :
          \A to \in {RAdd(vCurrent, RMul(drain, Damping(data', vCurrent)))} :
            /\ vCurrent' = RMax(R(0), RMin(R(data'.vTotal), to))
            /\ obs'.wrote = Pane
            /\ \A p \in Pane :
                 scrollTop'[p] = RSub(lookup(data'.segments, "vPx", Axis(p),
                                             vCurrent'), R(alignOffset))
            /\ IF RLe(R(PUMP_STOP_PX), RAbs(rest))
               THEN /\ wheelRemaining' = rest
                    /\ pumpRafId' # NoFrame /\ frames' = {pumpRafId'}
                    /\ obs'.requested = pumpRafId'
                    /\ snapping' = snapping
               ELSE \/ /\ wheelRemaining' = rest
                       /\ pumpRafId' = NoFrame /\ frames' = {}
                       /\ obs'.requested = NoFrame
                       /\ ~snapping'
                    \/ /\ ~snapping /\ snapping'
                       /\ pumpRafId' # NoFrame /\ frames' = {pumpRafId'}]_vars

\* A frame has fired inside a brake zone, off the anchor: of a drain of
\* 3/2 at vCurrent 1/2, three quarters were applied and all was retired.
C25_Witness ==
  /\ obs.op = "frame" /\ obs.wrote = Pane
  /\ wheel.brake # NoBrake /\ wheel.smooth = Half /\ ~snapping
  /\ vCurrent = [n |-> 13, d |-> 8] /\ wheelRemaining = [n |-> 3, d |-> 2]

\* C26: a scroll event that is handled as a genuine scroll while a frame
\* is scheduled derives vCurrent from the pane that moved and writes the
\* other pane from it, and leaves the scheduled frame, #pumpRafId,
\* #wheelRemaining and #snapping as they are; the frame that fires next
\* adds its drain to the vCurrent so derived.
C26_ScrollDuringPump ==
  /\ [][(obs'.op = "scroll" /\ obs'.wrote # {} /\ pumpRafId # NoFrame)
          => \A src \in {obs'.src} :
             /\ vCurrent' =
                  RMax(R(0), RMin(R(data'.vTotal),
                       lookup(data'.segments, Axis(src), "vPx",
                              RAdd(scrollTop'[src], R(alignOffset)))))
             /\ obs'.wrote = {Other(src)}
             /\ scrollTop'[Other(src)] =
                  RSub(lookup(data'.segments, "vPx", Axis(Other(src)),
                              vCurrent'), R(alignOffset))
             /\ frames' = frames /\ pumpRafId' = pumpRafId
             /\ obs'.cancelled = NoFrame /\ obs'.requested = NoFrame
             /\ wheelRemaining' = wheelRemaining
             /\ snapping' = snapping]_vars
  /\ [][(/\ obs.op = "scroll" /\ obs.wrote # {}
          /\ obs'.op = "frame" /\ enabled /\ frames # {})
          => vCurrent' =
               RMax(R(0), RMin(R(data'.vTotal),
                    RAdd(vCurrent,
                         RMul(RMul(wheelRemaining, wheel.smooth),
                              Damping(data', vCurrent)))))]_vars

\* The user moved pane B away from the pump's last write while a frame
\* was scheduled: vCurrent changed, pane A followed, the frame is still
\* scheduled and #wheelRemaining undrained.
C26_Witness ==
  /\ obs.op = "scroll" /\ obs.src = "b" /\ obs.wrote = {"a"} /\ ~obs.echo
  /\ enabled /\ pumpRafId # NoFrame /\ pumpRafId \in frames
  /\ RLe(R(PUMP_STOP_PX), RAbs(wheelRemaining))
  /\ obs.diff # Null /\ RLe(R(ECHO_GUARD_PX), obs.diff)

\* C27: when a wheel event, a frame or scrollTo() has written a pane, it
\* has written both, pane A to lookup(V -> A, vCurrent) - alignOffset and
\* pane B to lookup(V -> B, vCurrent) - alignOffset for the vCurrent it
\* leaves; both expectations are the offsets written; and the scroll
\* events of both writes are still to be dispatched when it returns.
C27_BothPanes ==
  [][(obs'.op \in {"wheel", "frame", "scrollTo"} /\ obs'.wrote # {})
       => /\ obs'.wrote = Pane
          /\ \A p \in Pane :
               scrollTop'[p] = RSub(lookup(data'.segments, "vPx", Axis(p),
                                           vCurrent'), R(alignOffset'))
          /\ expectedA' = scrollTop'["a"]
          /\ expectedB' = scrollTop'["b"]
          /\ \A p \in Pane : pendingScroll'[p]]_vars

\* scrollTo() moved the panes of an offset controller to different
\* offsets, inside the map.
C27_Witness ==
  /\ obs.op = "scrollTo" /\ obs.wrote = Pane /\ alignOffset # 0
  /\ scrollTop["a"] # scrollTop["b"]
  /\ RLt(R(0), vCurrent) /\ RLt(vCurrent, R(data.vTotal))
  /\ expectedA = scrollTop["a"] /\ expectedB = scrollTop["b"]

\* The snap candidates of map d: the starts of its snap-flagged segments
\* when it has any, else the starts of all its segments.
Candidates(d) ==
  { R(d.segments[i].vPx) :
      i \in { j \in 1..Len(d.segments) : d.hasSnap => d.segments[j].snap } }

\* The candidates of d nearest to v.
Nearest(d, v) ==
  { c \in Candidates(d) :
      \A c2 \in Candidates(d) :
        RLe(RAbs(RSub(c, v)), RAbs(RSub(c2, v))) }

\* C28: the frame that ends a pump which was not a snap pass, on a
\* non-empty map, starts a snap pass exactly when wheel.snap > 0 and the
\* candidate nearest to vCurrent (among the snap-flagged segment starts if
\* the map has any, else among all segment starts) is at a distance d with
\* 0 < d <= wheel.snap; the pass gets wheelRemaining = target - vCurrent.
\* With wheel.snap = 0 no snap pass starts.
C28_SnapDecision ==
  /\ [][(/\ obs'.op = "frame" /\ obs'.wrote = Pane /\ enabled
          /\ frames # {} /\ ~snapping
          /\ RLt(RAbs(Undrained), R(PUMP_STOP_PX))
          /\ Len(data'.segments) > 0)
          => \A near \in {Nearest(data', vCurrent')} :
             /\ snapping' <=>
                  \E t \in near : /\ RLt(R(0), wheel.snap)
                                   /\ t # vCurrent'
                                   /\ RLe(RAbs(RSub(t, vCurrent')), wheel.snap)
             /\ snapping' =>
                  /\ \E t \in near : wheelRemaining' = RSub(t, vCurrent')
                  /\ pumpRafId' # NoFrame /\ frames' = {pumpRafId'}]_vars
  /\ [][wheel.snap = R(0) => ~snapping']_vars

\* A pump ended between an unflagged segment start and a snap-flagged one
\* farther away, and a snap pass towards the flagged one was started.
C28_Witness ==
  /\ obs.op = "frame" /\ snapping /\ data.hasSnap /\ frames # {}
  /\ \E i \in 1..Len(data.segments) :
       data.segments[i].snap /\ R(data.segments[i].vPx) = SnapTarget
  /\ \E i \in 1..Len(data.segments) :
       /\ ~data.segments[i].snap
       /\ RLt(RAbs(RSub(R(data.segments[i].vPx), vCurrent)),
              RAbs(wheelRemaining))

\* C29: while a snap pass is left alone (no wheel event, no genuine
\* scroll, no map change, the controller enabled), vCurrent +
\* wheelRemaining is the segment start the pass heads for after every
\* frame; each of its frames moves vCurrent by the whole drain, brake or
\* not; and when the pass ends vCurrent is less than PUMP_STOP_PX from the
\* target.
C29_SnapPass ==
  /\ [](snapping => \E i \in 1..Len(data.segments) :
                      R(data.segments[i].vPx) = SnapTarget)
  /\ [][(obs'.op = "frame" /\ snapping /\ enabled /\ frames # {})
          => \A t \in {SnapTarget} :
             /\ vCurrent' = RAdd(vCurrent, RMul(wheelRemaining, wheel.smooth))
             /\ snapping' => (SnapTarget' = t /\ frames' # {})
             /\ ~snapping' =>
                  /\ RLt(RAbs(RSub(t, vCurrent')), R(PUMP_STOP_PX))
                  /\ frames' = {}]_vars

\* A snap pass of two frames that began inside a brake zone, half a pixel
\* off the start of the map, has ended 39/8 short of the anchor at 20.
C29_Witness ==
  /\ obs.op = "frame" /\ ~snapping /\ frames = {}
  /\ wheel.brake # NoBrake /\ SnapTarget = R(20)
  /\ vCurrent = [n |-> 121, d |-> 8]

\* C30: a wheel event accepted during a snap pass clears #snapping in the
\* same handler run and adds its delta to what the pass had left, on the
\* frame already scheduled; the frame that follows is braked like any
\* frame of a wheel pump, and if it ends the pump the snap decision is
\* taken anew.
C30_WheelCutsSnap ==
  /\ [][(obs'.op = "wheel" /\ obs'.prevented /\ snapping)
          => /\ ~snapping' /\ obs'.cutSnap
             /\ ~IsInstant(wheel') =>
                  /\ wheelRemaining' = RAdd(wheelRemaining, Dy(obs'.e))
                  /\ frames' = frames /\ pumpRafId' = pumpRafId]_vars
  /\ [][(/\ obs.op = "wheel" /\ obs.cutSnap
          /\ obs'.op = "frame" /\ enabled /\ frames # {})
          => \A near \in {NearestStart(data', vCurrent, 1)} :
             \A t \in {IF RLe(wheel.brake.zone, near) THEN R(1)
                        ELSE RDiv(near, wheel.brake.zone)} :
             \A braked \in {RAdd(wheel.brake.factor,
                                 RMul(RSub(R(1), wheel.brake.factor),
                                      RMul(RMul(t, t),
                                           RSub(R(3), RAdd(t, t)))))} :
             /\ vCurrent' =
                  RMax(R(0), RMin(R(data'.vTotal),
                       RAdd(vCurrent,
                            RMul(RMul(wheelRemaining, wheel.smooth), braked))))
             /\ RLt(RAbs(Undrained), R(PUMP_STOP_PX)) =>
                  (snapping' <=>
                     \E c \in Nearest(data', vCurrent') :
                       /\ c # vCurrent'
                       /\ RLe(RAbs(RSub(c, vCurrent')), wheel.snap))]_vars

\* A wheel event was accepted during a snap pass while vCurrent was inside
\* a brake zone, off the anchor.
C30_Witness ==
  /\ obs.op = "wheel" /\ obs.prevented /\ obs.cutSnap
  /\ ~snapping /\ frames # {} /\ wheel.brake # NoBrake
  /\ RLt(R(0), NearestStart(data, vCurrent, 1))
  /\ RLt(NearestStart(data, vCurrent, 1), wheel.brake.zone)

\* C31: between handler runs, whenever no frame is scheduled
\* |wheelRemaining| is below PUMP_STOP_PX, also after the controller was
\* disabled while a pump was in flight.
C31_NoLeftover ==
  frames = {} => RLt(RAbs(wheelRemaining), R(PUMP_STOP_PX))

\* C32: a pump in flight ends after finitely many frames also when the
\* host changes wheel.smooth while it runs: whenever a frame is scheduled,
\* eventually none is.
C32_TunedPumpEnds == (frames # {}) ~> (frames = {})

\* The step is a handler run that uses the map: a scroll event that is
\* re-synced, a wheel event applied at once, a frame of an enabled
\* controller, scrollTo().
UsesMap ==
  /\ ~obs'.threw
  /\ \/ obs'.op = "scroll" /\ enabled /\ ~obs'.echo
     \/ obs'.op = "wheel" /\ obs'.prevented /\ IsInstant(wheel')
     \/ obs'.op = "frame" /\ enabled /\ frames # {}
     \/ obs'.op = "scrollTo"

\* C33: a handler that uses the map while the dirty flag is set rebuilds
\* it from the content and extents of that moment, clears the flag, and
\* writes the panes from the rebuilt map; this holds for the frames of a
\* pump that was in flight when invalidate() was called.
C33_NoStaleMap ==
  [][(UsesMap /\ dirty)
       => /\ obs'.built /\ ~dirty'
          /\ data' = BuiltMap[layout]
          /\ \A p \in obs'.wrote :
               scrollTop'[p] = RSub(lookup(BuiltMap[layout].segments, "vPx",
                                           Axis(p), vCurrent'),
                                    R(alignOffset))]_vars

\* The second frame of a pump rebuilt the map: the map was invalidated
\* between its frames.
C33_Witness ==
  /\ obs.op = "frame" /\ obs.built /\ obs.wrote = Pane /\ ~dirty
  /\ inputs = 2 /\ wheelRemaining = R(-8) /\ frames # {}
  /\ data = BuiltMap[layout] /\ data # EmptyMap

\* C34: while the empty fallback map is cached and the dirty flag is
\* clear, no event and no call rebuilds (getAnchors is not called); with
\* the flag set, the first handler run or ensureMap() that uses the map
\* rebuilds it, and if getAnchors no longer throws the built map is
\* cached, a re-synced scroll writes the other pane and an applied wheel
\* delta writes both panes from it.
C34_RetryAfterInvalidate ==
  /\ [][(data = EmptyMap /\ ~dirty) => ~obs'.built]_vars
  /\ [][(/\ data = EmptyMap /\ dirty
          /\ (UsesMap \/ (obs'.op = "ensureMap" /\ ~obs'.threw)))
          => /\ obs'.built /\ ~dirty'
             /\ obs'.onError = L.throws
             /\ data' = BuiltMap[layout]
             /\ (~L.throws) =>
                  /\ Len(data'.segments) > 0
                  /\ obs'.op = "scroll" => obs'.wrote = {Other(obs'.src)}
                  /\ obs'.op \in {"wheel", "frame", "scrollTo"}
                       => obs'.wrote = Pane
                  /\ \A p \in obs'.wrote :
                       scrollTop'[p] =
                         RSub(lookup(data'.segments, "vPx", Axis(p),
                                     vCurrent'), R(alignOffset))]_vars

\* The first frame of a pump cached the fallback map; the host replaced
\* the content and invalidated; the second frame rebuilt a map with
\* segments and wrote both panes from it.
C34_Witness ==
  /\ obs.op = "frame" /\ obs.built /\ ~obs.onError /\ obs.wrote = Pane
  /\ inputs = 2 /\ wheelRemaining = R(-8) /\ frames # {}
  /\ ~L.throws /\ data = BuiltMap[layout] /\ Len(data.segments) > 0

\* The brake is configured: #anchorDamping does not take its early
\* return for a missing or inactive brake.
Braking ==
  /\ wheel.brake # NoBrake
  /\ RLe(R(0), wheel.brake.factor) /\ RLt(wheel.brake.factor, R(1))
  /\ RLt(R(0), wheel.brake.zone)

\* C35: with braking configured and 0 < wheel.smooth < 1, a frame that
\* drains a non-zero wheelRemaining outside a snap pass moves vCurrent in
\* the direction of the delta, unless vCurrent is already clamped at that
\* end of [0, vTotal].
C35_BrakeNeverStalls ==
  [][(/\ obs'.op = "frame" /\ enabled /\ frames # {}
      /\ Braking /\ ~snapping
      /\ RLt(R(0), wheel.smooth) /\ RLt(wheel.smooth, R(1))
      /\ wheelRemaining # R(0))
       => IF RLt(R(0), wheelRemaining)
          THEN RLt(vCurrent, vCurrent') \/ vCurrent = R(data'.vTotal)
          ELSE RLt(vCurrent', vCurrent) \/ vCurrent = R(0)]_vars

\* The point before visited anchor i among the kept ones K: the last
\* kept anchor visited earlier, or the synthetic head.
LastKept(K, i) ==
  LET before == { k \in K : k < i } IN
  IF before = {} THEN [aPx |-> 0, bPx |-> 0, snap |-> FALSE]
  ELSE Visited[CHOOSE k \in before : \A x \in before : x <= k]

\* K holds exactly the visited anchors whose bPx is at least the last
\* kept anchor's and whose aPx exceeds the last kept point's.
KeepRule(K) ==
  \A i \in 1..Len(Visited) :
    i \in K <=> /\ Visited[i].bPx >= LastKept(K, i).bPx
                /\ Visited[i].aPx > LastKept(K, i).aPx

\* The j-th member of K in visiting order.
KeptAt(K, j) == CHOOSE k \in K : Cardinality({ x \in K : x <= k }) = j

\* C36: the anchors buildMap keeps are exactly those that, visited in
\* ascending aPx order after rounding and clamping, have bPx at least the
\* last kept anchor's bPx and aPx above the last kept point's aPx; every
\* segment has aS >= 0 and bS >= 0, droppedCount is the number of input
\* anchors less the kept ones, and there is one segment more than kept
\* anchors.
C36_KeepRule ==
  ret.fn = "buildMap" =>
    \E K \in SUBSET (1..Len(Visited)) :
      /\ KeepRule(K)
      /\ Len(ret.map.segments) = Cardinality(K) + 1
      /\ ret.map.droppedCount = Len(args.anchors) - Cardinality(K)
      /\ \A j \in 1..Cardinality(K) :
           /\ ret.map.segments[j + 1].aPx = Visited[KeptAt(K, j)].aPx
           /\ ret.map.segments[j + 1].bPx = Visited[KeptAt(K, j)].bPx
           /\ ret.map.segments[j + 1].snap = Visited[KeptAt(K, j)].snap
      /\ \A i \in 1..Len(ret.map.segments) :
           ret.map.segments[i].aS >= 0 /\ ret.map.segments[i].bS >= 0

\* Three anchors at ascending aPx with bPx 4, 1, 2: the first is kept,
\* the second is dropped for its bPx and so is the third, although its
\* bPx is above the second's.
C36_Witness ==
  /\ ret.fn = "buildMap" /\ Len(Visited) = 3
  /\ Visited[1].bPx = 4 /\ Visited[2].bPx = 1 /\ Visited[3].bPx = 2
  /\ Visited[1].aPx < Visited[2].aPx /\ Visited[2].aPx < Visited[3].aPx
  /\ ret.map.droppedCount = 2 /\ Len(ret.map.segments) = 2
  /\ ret.map.segments[2].bPx = 4

\* buildMap was called with positive extents.
PositiveExtents == ret.fn = "buildMap" /\ args.sMaxA > 0 /\ args.sMaxB > 0

\* C37 as stated: for positive extents every segment has aS > 0 and
\* vS > 0.
C37_NoZeroLength_AsStated ==
  PositiveExtents =>
    \A i \in 1..Len(ret.map.segments) :
      ret.map.segments[i].aS > 0 /\ ret.map.segments[i].vS > 0

\* C37: for positive extents every segment but the last has aS > 0 and
\* vS > 0, so no two segments start at the same aPx or the same vPx; the
\* last segment, which ends at the extents, has aS >= 0 and vS >= 0 and
\* has length zero exactly when the last kept anchor lies at (sMaxA,
\* sMaxB).
C37_NoZeroLength ==
  PositiveExtents =>
    \A n \in {Len(ret.map.segments)} :
      /\ \A i \in 1..(n - 1) :
           /\ ret.map.segments[i].aS > 0 /\ ret.map.segments[i].vS > 0
           /\ ret.map.segments[i].aPx < ret.map.segments[i + 1].aPx
           /\ ret.map.segments[i].vPx < ret.map.segments[i + 1].vPx
      /\ ret.map.segments[n].aS >= 0 /\ ret.map.segments[n].vS >= 0
      /\ ret.map.segments[n].vS = 0
           <=> /\ ret.map.segments[n].aPx = args.sMaxA
               /\ ret.map.segments[n].bPx = args.sMaxB

\* Two anchors are kept, the second clamped onto both extents: the map
\* has three segments and the last has length zero.
C37_Witness ==
  /\ PositiveExtents /\ Len(ret.map.segments) = 3
  /\ ret.map.segments[3].aS = 0 /\ ret.map.segments[3].vS = 0
  /\ ret.map.segments[3].vPx = ret.map.vTotal
  /\ ret.map.segments[1].vS > 0 /\ ret.map.segments[2].vS > 0

\* The anchors of the call in input order, rounded and clamped.
Clamped ==
  [i \in 1..Len(args.anchors) |->
     ClampAnchor(args.anchors[i], IMax(0, args.sMaxA), IMax(0, args.sMaxB))]

\* The input anchors at aPx g, and the aPx values shared by several.
Group(g) == { i \in 1..Len(Clamped) : Clamped[i].aPx = g }
DuplicatedA ==
  { Clamped[i].aPx : i \in { k \in 1..Len(Clamped) :
                               Cardinality(Group(Clamped[k].aPx)) > 1 } }

\* The segments of the built map that start at a kept anchor at aPx g.
KeptAtA(g) ==
  { j \in 2..Len(ret.map.segments) : ret.map.segments[j].aPx = g }

\* lastB when the loop reaches the anchors at aPx g > 0: the bPx of the
\* last point kept before them.
PrevB(g) ==
  LET below == { j \in 1..Len(ret.map.segments) :
                   ret.map.segments[j].aPx < g }
  IN  ret.map.segments[CHOOSE j \in below : \A x \in below : x <= j].bPx

\* The first member of a non-empty set of input positions.
First(S) == CHOOSE i \in S : \A x \in S : i <= x

NonDecreasing(segments, axis) ==
  \A i \in 1..(Len(segments) - 1) :
    segments[i][axis] <= segments[i + 1][axis]

\* The rightmost segment whose start on the axis is at most value, the
\* first segment when there is none.
Rightmost(segments, axis, value) ==
  LET at == { i \in 1..Len(segments) : RLe(R(segments[i][axis]), value) }
  IN  IF at = {} THEN 1 ELSE CHOOSE i \in at : \A x \in at : x <= i

\* C39: on a non-empty segment list with non-decreasing starts on the
\* source axis lookup returns, for the rightmost segment whose start is at
\* most value (the first when there is none), start_to + (value -
\* start_from) / length_from * length_to, or start_to when length_from
\* <= 0; on an empty list it returns 0.
C39_Lookup ==
  (ret.fn = "lookup" /\ NonDecreasing(ret.map.segments, ret.from)) =>
    IF Len(ret.map.segments) = 0 THEN ret.out = R(0)
    ELSE \A seg \in {ret.map.segments[Rightmost(ret.map.segments, ret.from,
                                                  ret.value)]} :
           \A length \in {seg[SIZE_KEY[ret.from]]} :
             ret.out =
               IF length <= 0 THEN R(seg[ret.to])
               ELSE RAdd(R(seg[ret.to]),
                         RMul(RDiv(RSub(ret.value, R(seg[ret.from])),
                                   R(length)),
                              R(seg[SIZE_KEY[ret.to]])))

\* A position inside the second of three segments was interpolated to a
\* position strictly inside that segment on the target axis.
C39_Witness ==
  /\ ret.fn = "lookup" /\ Len(ret.map.segments) = 3
  /\ NonDecreasing(ret.map.segments, ret.from)
  /\ Rightmost(ret.map.segments, ret.from, ret.value) = 2
  /\ RLt(R(ret.map.segments[2][ret.from]), ret.value)
  /\ RLt(R(ret.map.segments[2][ret.to]), ret.out)
  /\ RLt(ret.out, R(ret.map.segments[3][ret.to]))

\* A virtual position within [0, vTotal] was converted to a pane axis and
\* back.
FromVirtual ==
  /\ ret.fn = "roundTrip" /\ ret.from = "vPx"
  /\ RLe(R(0), ret.value) /\ RLe(ret.value, R(ret.map.vTotal))

\* C40 as stated: a virtual position v within [0, vTotal] converted to the
\* axis of pane A or of pane B and back is v again, to within less than
\* half a pixel.
C40_VirtualRoundTrip_AsStated ==
  FromVirtual => RLt(RAbs(RSub(ret.out, ret.value)), Half)

\* C40: a virtual position v within [0, vTotal] converted to the axis of a
\* pane and back is v again when the pane moves in the segment of v (aS >
\* 0 for pane A, bS > 0 for pane B); when the pane does not move there the
\* result is the virtual start of the last segment that begins at the
\* pane position v was converted to.
C40_VirtualRoundTrip ==
  FromVirtual =>
    \A segs \in {ret.map.segments} :
      IF segs[Rightmost(segs, "vPx", ret.value)][SIZE_KEY[ret.to]] > 0
      THEN ret.out = ret.value
      ELSE /\ ret.mid = R(segs[Rightmost(segs, "vPx", ret.value)][ret.to])
           /\ ret.out = R(segs[Rightmost(segs, ret.to, ret.mid)].vPx)

\* A fractional virtual position inside a segment in which both panes
\* move came back unchanged through pane B, where it is another number.
C40_Witness ==
  /\ FromVirtual /\ ret.to = "bPx" /\ ~IsInt(ret.value)
  /\ ret.mid # ret.value /\ ret.out = ret.value
  /\ Len(ret.map.segments) = 3
  /\ \A seg \in {ret.map.segments[Rightmost(ret.map.segments, "vPx",
                                                ret.value)]} :
       seg.aS > 0 /\ seg.bS > 0 /\ seg.aS # seg.bS

====
